---------------------------- MODULE Spec2Model ----------------------------
(***************************************************************************)
(* Live recitation pipeline of the Quran recitation backend:               *)
(*   services/vad_processor.py  VoiceActivityDetector (real and dummy)     *)
(*   main.py                    RecitationSession, websocket_endpoint      *)
(*   services/database.py       QuranDatabase.get_ayah_words               *)
(*   services/text_matcher.py   ArabicTextMatcher                          *)
(*                                                                         *)
(*   services/audio_processor.py, services/transcriber.py  temporary files *)
(*                                                                         *)
(* The specifications share the definitions below:                         *)
(*   SpecVad  one VoiceActivityDetector object fed frame by frame          *)
(*   Spec     the /ws/live-recite connection handler and its session       *)
(*   SpecScenario  the same handler on an ayah of four words, no failures  *)
(*   SpecText calls of ArabicTextMatcher and of get_final_stats on inputs  *)
(*            drawn in the initial state                                   *)
(*   SpecPass the passes of one session through the pipeline of            *)
(*            process_audio_chunk, with the temporary WAV files            *)
(*                                                                         *)
(* Left out: the frame counters (_frame_count), which only drive logging,  *)
(* and the print statements.                                               *)
(***************************************************************************)
EXTENDS Integers, Sequences, FiniteSets, TLC

VARIABLES
    USE_REAL_VAD,   \* vad_processor.py:1-6, decided once at import
    vad,            \* SpecVad: the VoiceActivityDetector object under test
    call,           \* SpecVad: the latest process_frame/reset call and its return value
    hist,           \* SpecVad: history of the valid frames fed (observer only)
    pc,             \* Spec: where each connection's websocket_endpoint coroutine stands
    session,        \* Spec: the handler's local `session`: <<>> for None, <<s>> otherwise
    sent,           \* Spec: the events delivered to each client by websocket.send_json
    gone,           \* Spec: the client has disconnected
    job,            \* Spec: locals of the process_audio_chunk call in progress
    inflight,       \* Spec: the transcription requests awaiting their HTTP response
    calc,           \* SpecText: a call of the text matcher or of the statistics,
                    \* with its inputs and its return value
    pipe,           \* SpecPass: the temporary files and the position of one
                    \* session's process_audio_chunk pipeline
    trace           \* Spec: the handler's latest step and the numbering of the
                    \* segments through the pipeline (observer only)

vadVars == <<vad, call, hist>>
connVars == <<pc, session, sent, gone, job, inflight, trace>>
vars == <<USE_REAL_VAD, vad, call, hist, pc, session, sent, gone, job, inflight,
          calc, pipe, trace>>

----------------------------------------------------------------------------
(* Bounds of the model *)

\* SpecVad: number of valid frames fed to the detector under test
MaxFrames == 20
\* SpecVad: number of reset() calls on the detector under test
MaxResets == 1
\* Spec: longest run of frames a detector accumulates for one word
MaxSegFrames == 16
\* Spec: changes of the classifier's verdict while one word is being captured
MaxFlips == 2
\* Spec: init messages accepted on one connection
MaxInits == 1
\* Spec: pipeline failures on one connection
MaxErrors == 1
\* SpecRetry: consecutive failures of the transcription on one connection
MaxRetries == 3
\* SpecReinit: init messages accepted on one connection
MaxReinits == 2
\* SpecStream: valid frames fed to one detector
MaxStream == 40
\* SpecText: length of the texts over the character classes
MaxLen == 3
\* SpecText: length of the common prefix of the pairs around the thresholds
MaxRun == 17
\* SpecText: length of the differing tails of those pairs
MaxTail == 3
\* SpecText: results of the sessions whose statistics are computed
MaxResults == 3
\* SpecPass: segments taken through the pipeline
MaxPasses == 3

----------------------------------------------------------------------------
(* Program constants, services/vad_processor.py *)

sample_rate == 16000
frame_duration_ms == 30
\* int(sample_rate * frame_duration_ms / 1000) * 2  = 960
bytes_per_frame == ((sample_rate * frame_duration_ms) \div 1000) * 2
ring_buffer_size == 10
frames_threshold == 17

\* a frame length the client may send that is not bytes_per_frame
ShortLen == bytes_per_frame \div 2

----------------------------------------------------------------------------
(* Frames and segments.  A frame is its byte length and its payload; the    *)
(* payload of a frame is abstracted to one number.  b''.join(frames) is the *)
(* sequence of the frames joined, None is the empty sequence (both are      *)
(* falsy for the caller's `if not audio_segment`).                          *)

Frame(d, l) == [data |-> d, len |-> l]
None == <<>>
Join(frames) == frames

\* collections.deque(maxlen=n).append(x)
DequeAppend(dq, x, maxlen) ==
    IF Len(dq) >= maxlen THEN Append(Tail(dq), x) ELSE Append(dq, x)

\* mutant: only the frames classified speech are moved to the accumulator
RingFramesSpeechOnly(rb) ==
    LET keep == SelectSeq(rb, LAMBDA e : e.speech)
    IN  [i \in 1..Len(keep) |-> keep[i].frame]

\* [f for f, s in ring_buffer]
RingFrames(rb) == [i \in 1..Len(rb) |-> rb[i].frame]

\* len([f for f, speech in ring_buffer if speech])
NumVoiced(rb) == Cardinality({i \in 1..Len(rb) : rb[i].speech})
\* len([f for f, speech in ring_buffer if not speech])
NumUnvoiced(rb) == Cardinality({i \in 1..Len(rb) : ~rb[i].speech})

\* mutants: the trigger compares with >=; the trigger compares with the
\* number of frames buffered instead of the buffer's capacity
TriggerCondAtLeast(rb) == NumVoiced(rb) * 10 >= 5 * ring_buffer_size
TriggerCondOfLen(rb) == NumVoiced(rb) * 10 > 5 * Len(rb)
\* mutant: the release compares with >=
ReleaseCondAtLeast(rb) == NumUnvoiced(rb) * 10 >= 8 * ring_buffer_size

\* num_voiced > 0.5 * self.ring_buffer.maxlen
TriggerCond(rb) == NumVoiced(rb) * 10 > 5 * ring_buffer_size
\* mutant: the release waits for a ring buffer of silence only
ReleaseCondAllSilence(rb) == NumUnvoiced(rb) * 10 > 9 * ring_buffer_size

\* num_unvoiced > 0.8 * self.ring_buffer.maxlen
ReleaseCond(rb) == NumUnvoiced(rb) * 10 > 8 * ring_buffer_size

\* VoiceActivityDetector.__init__ (both variants)
NewVad == [triggered |-> FALSE, ring_buffer |-> <<>>, voiced_frames |-> <<>>]

\* mutant: only frames that are too long are rejected
MalformedOnlyLong(frame) == frame.len > bytes_per_frame

\* len(audio_frame) != self.bytes_per_frame
Malformed(frame) == frame.len # bytes_per_frame

\* mutant: the window is not cleared at the transition into CAPTURING
RealProcessFrameKeepsWindow(v, frame, is_speech) ==
    IF Malformed(frame) THEN [vad |-> v, ret |-> None]
    ELSE IF ~v.triggered THEN
        LET rb == DequeAppend(v.ring_buffer, [frame |-> frame, speech |-> is_speech],
                              ring_buffer_size)
        IN  IF TriggerCond(rb)
            THEN [vad |-> [triggered |-> TRUE,
                           ring_buffer |-> rb,
                           voiced_frames |-> v.voiced_frames \o RingFrames(rb)],
                  ret |-> None]
            ELSE [vad |-> [v EXCEPT !.ring_buffer = rb], ret |-> None]
    ELSE
        LET vf == Append(v.voiced_frames, frame)
            rb == DequeAppend(v.ring_buffer, [frame |-> frame, speech |-> is_speech],
                              ring_buffer_size)
        IN  IF ReleaseCond(rb)
            THEN [vad |-> [triggered |-> FALSE, ring_buffer |-> <<>>,
                           voiced_frames |-> <<>>],
                  ret |-> Join(vf)]
            ELSE [vad |-> [v EXCEPT !.voiced_frames = vf, !.ring_buffer = rb],
                  ret |-> None]

\* mutant: the accumulator is not emptied when a segment is returned
RealProcessFrameKeepsFrames(v, frame, is_speech) ==
    IF Malformed(frame) THEN [vad |-> v, ret |-> None]
    ELSE IF ~v.triggered THEN
        LET rb == DequeAppend(v.ring_buffer, [frame |-> frame, speech |-> is_speech],
                              ring_buffer_size)
        IN  IF TriggerCond(rb)
            THEN [vad |-> [triggered |-> TRUE,
                           ring_buffer |-> <<>>,
                           voiced_frames |-> v.voiced_frames \o RingFrames(rb)],
                  ret |-> None]
            ELSE [vad |-> [v EXCEPT !.ring_buffer = rb], ret |-> None]
    ELSE
        LET vf == Append(v.voiced_frames, frame)
            rb == DequeAppend(v.ring_buffer, [frame |-> frame, speech |-> is_speech],
                              ring_buffer_size)
        IN  IF ReleaseCond(rb)
            THEN [vad |-> [triggered |-> FALSE, ring_buffer |-> <<>>,
                           voiced_frames |-> vf],
                  ret |-> Join(vf)]
            ELSE [vad |-> [v EXCEPT !.voiced_frames = vf, !.ring_buffer = rb],
                  ret |-> None]

\* real VoiceActivityDetector.process_frame: the detector after the call and
\* the value returned
RealProcessFrame(v, frame, is_speech) ==
    IF Malformed(frame) THEN [vad |-> v, ret |-> None]
    ELSE IF ~v.triggered THEN
        LET rb == DequeAppend(v.ring_buffer, [frame |-> frame, speech |-> is_speech],
                              ring_buffer_size)
        IN  IF TriggerCond(rb)
            THEN [vad |-> [triggered |-> TRUE,
                           ring_buffer |-> <<>>,
                           voiced_frames |-> v.voiced_frames \o RingFrames(rb)],
                  ret |-> None]
            ELSE [vad |-> [v EXCEPT !.ring_buffer = rb], ret |-> None]
    ELSE
        LET vf == Append(v.voiced_frames, frame)
            rb == DequeAppend(v.ring_buffer, [frame |-> frame, speech |-> is_speech],
                              ring_buffer_size)
        IN  IF ReleaseCond(rb)
            THEN [vad |-> [triggered |-> FALSE, ring_buffer |-> <<>>,
                           voiced_frames |-> <<>>],
                  ret |-> Join(vf)]
            ELSE [vad |-> [v EXCEPT !.voiced_frames = vf, !.ring_buffer = rb],
                  ret |-> None]

\* mutant: the dummy returns the segment once it holds more than the threshold
DummyProcessFrameAbove(v, frame) ==
    IF Malformed(frame) THEN [vad |-> v, ret |-> None]
    ELSE LET vf == Append(v.voiced_frames, frame)
         IN  IF Len(vf) > frames_threshold
             THEN [vad |-> [v EXCEPT !.voiced_frames = <<>>], ret |-> Join(vf)]
             ELSE [vad |-> [v EXCEPT !.voiced_frames = vf], ret |-> None]

\* dummy VoiceActivityDetector.process_frame
DummyProcessFrame(v, frame) ==
    IF Malformed(frame) THEN [vad |-> v, ret |-> None]
    ELSE LET vf == Append(v.voiced_frames, frame)
         IN  IF Len(vf) >= frames_threshold
             THEN [vad |-> [v EXCEPT !.voiced_frames = <<>>], ret |-> Join(vf)]
             ELSE [vad |-> [v EXCEPT !.voiced_frames = vf], ret |-> None]

\* the class bound to the name VoiceActivityDetector at import
process_frame(real, v, frame, is_speech) ==
    IF real THEN RealProcessFrame(v, frame, is_speech)
    ELSE DummyProcessFrame(v, frame)

\* mutant: reset keeps the frames accumulated for the word
resetKeepsAccumulator(v) ==
    [triggered |-> FALSE, ring_buffer |-> <<>>, voiced_frames |-> v.voiced_frames]

\* VoiceActivityDetector.reset (both variants)
reset(v) == [triggered |-> FALSE, ring_buffer |-> <<>>, voiced_frames |-> <<>>]

----------------------------------------------------------------------------
(* Text: a Python str is the sequence of its characters; a character is     *)
(* named by a string.  services/text_matcher.py                             *)

\* pyarabic.araby.TASHKEEL: the harakat and shadda
TASHKEEL == {"fathatan", "dammatan", "kasratan", "fatha", "damma", "kasra",
             "sukun", "shadda"}
TATWEEL == "tatweel"
Whitespace == {" ", "\t", "\n"}

\* araby.strip_tashkeel
strip_tashkeel(text) == SelectSeq(text, LAMBDA ch : ch \notin TASHKEEL)
\* araby.strip_tatweel
strip_tatweel(text) == SelectSeq(text, LAMBDA ch : ch # TATWEEL)

\* the chain of text.replace calls, lines 29-38
ReplaceChar(ch) ==
    CASE ch \in {"alef_hamza_above", "alef_hamza_below", "alef_madda", "alef_wasla"}
           -> "alef"
      [] ch = "alef_maksura" -> "yeh"
      [] ch = "teh_marbuta" -> "heh"
      [] OTHER -> ch
ReplaceChars(text) == [i \in 1..Len(text) |-> ReplaceChar(text[i])]

\* ' '.join(text.split()).strip(): runs of whitespace become one space, none
\* at the ends.  Kept are the other characters and, as a space, the first
\* whitespace of each run that stands between two of them.
CleanWhitespace(text) ==
    LET n == Len(text)
        kept(i) ==
            \/ text[i] \notin Whitespace
            \/ /\ i > 1 /\ text[i - 1] \notin Whitespace
               /\ \E j \in (i + 1)..n : text[j] \notin Whitespace
        at == SelectSeq([i \in 1..n |-> i], kept)
    IN  [k \in 1..Len(at) |->
            IF text[at[k]] \in Whitespace THEN " " ELSE text[at[k]]]

\* mutant: whitespace is cleaned before the marks are stripped
normalizeCleanFirst(text) ==
    ReplaceChars(strip_tatweel(strip_tashkeel(CleanWhitespace(text))))

\* ArabicTextMatcher.normalize
normalize(text) ==
    CleanWhitespace(ReplaceChars(strip_tatweel(strip_tashkeel(text))))

\* difflib.SequenceMatcher: length of the common run of a[i..] and b[j..]
\* (the range is halved at each step, to keep the evaluation shallow)
RECURSIVE RunLen(_, _, _, _, _, _)
RunLen(a, b, i, j, ahi, bhi) ==
    IF i > ahi \/ j > bhi THEN 0
    ELSE IF i = ahi \/ j = bhi THEN (IF a[i] = b[j] THEN 1 ELSE 0)
    ELSE LET room == IF ahi - i < bhi - j THEN ahi - i + 1 ELSE bhi - j + 1
             half == room \div 2
             first == RunLen(a, b, i, j, i + half - 1, j + half - 1)
         IN  IF first < half THEN first
             ELSE half + RunLen(a, b, i + half, j + half, ahi, bhi)

\* the block find_longest_match settles on among the blocks <<i, j, size>>
\* that start at a common character: the longest, earliest in a, then
\* earliest in b; an empty block at (alo, blo) when there is none
LongestOf(sized) ==
    CHOOSE n \in {s[3] : s \in sized} : \A s \in sized : s[3] <= n
EarliestOf(firsts) ==
    CHOOSE p \in firsts :
        \A q \in firsts : q[1] > p[1] \/ (q[1] = p[1] /\ q[2] >= p[2])
BlockOf(best) == [i |-> best[1], j |-> best[2], size |-> best[3]]
LongestAmong(sized, longest) == BlockOf(EarliestOf({s \in sized : s[3] = longest}))
EarliestLongest(sized, alo, blo) ==
    IF sized = {} THEN [i |-> alo, j |-> blo, size |-> 0]
    ELSE LongestAmong(sized, LongestOf(sized))

\* SequenceMatcher.find_longest_match(alo, ahi, blo, bhi): the longest block,
\* earliest in a, then earliest in b (1-based, inclusive bounds)
FindLongestMatch(a, b, alo, ahi, blo, bhi) ==
    EarliestLongest({<<p[1], p[2], RunLen(a, b, p[1], p[2], ahi, bhi)>> :
                        p \in {q \in (alo..ahi) \X (blo..bhi) : a[q[1]] = b[q[2]]}},
                    alo, blo)

\* SequenceMatcher.get_matching_blocks: total size of the matching blocks
RECURSIVE MatchedChars(_, _, _, _, _, _)
MatchedChars(a, b, alo, ahi, blo, bhi) ==
    IF alo > ahi \/ blo > bhi THEN 0
    ELSE LET m == FindLongestMatch(a, b, alo, ahi, blo, bhi)
         IN  IF m.size = 0 THEN 0
             ELSE m.size
                  + MatchedChars(a, b, alo, m.i - 1, blo, m.j - 1)
                  + MatchedChars(a, b, m.i + m.size, ahi, m.j + m.size, bhi)

\* SequenceMatcher(None, a, b).ratio() as the pair matches, total length
Matches(a, b) == MatchedChars(a, b, 1, Len(a), 1, Len(b))

\* round(x, 2) of a float, in hundredths, for x = num / den: the nearest
\* hundredth.  Where num / den lies midway between two hundredths the float
\* that holds x decides; `above` tells whether it rounds upwards.
RoundHundredths(num, den, above) ==
    LET q == num \div den
        r == num % den
    IN  IF 2 * r > den THEN q + 1
        ELSE IF 2 * r < den THEN q
        ELSE IF above THEN q + 1 ELSE q

\* mutant: two empty strings score 0
Similarity100EmptyZero(a, b) ==
    LET t == Len(a) + Len(b)
        down == (20000 * Matches(a, b)) \div t
    IN  IF t = 0 THEN 0
        ELSE RoundHundredths(20000 * Matches(a, b), t, down % 2 = 1)

\* round(ratio * 100, 2), in hundredths of a percent (0 .. 10000).  ratio()
\* is 1.0 for two empty strings.  A midway value is a multiple of 1/8 that the
\* float holds exactly while the total length is below 320, and round() then
\* takes the even hundredth.
Similarity100(a, b) ==
    LET t == Len(a) + Len(b)
        down == (20000 * Matches(a, b)) \div t
    IN  IF t = 0 THEN 10000
        ELSE RoundHundredths(20000 * Matches(a, b), t, down % 2 = 1)

\* mutant: the thresholds are exclusive
SimilarityAbove(a, b, pct) ==
    LET t == Len(a) + Len(b)
    IN  IF t = 0 THEN TRUE ELSE 200 * Matches(a, b) > pct * t

\* similarity >= pct, on the unrounded ratio * 100
SimilarityAtLeast(a, b, pct) ==
    LET t == Len(a) + Len(b)
    IN  IF t = 0 THEN TRUE ELSE 200 * Matches(a, b) >= pct * t

\* ArabicTextMatcher.compare_words
compare_words(expected, user_said) ==
    LET expected_clean == normalize(expected)
        user_clean == normalize(user_said)
        verdict ==
            IF expected_clean = user_clean
            THEN [status |-> "correct", color |-> "green",
                  message |-> [text |-> "excellent", expected |-> <<>>]]
            ELSE IF SimilarityAtLeast(expected_clean, user_clean, 85)
            THEN [status |-> "similar", color |-> "yellow",
                  message |-> [text |-> "very close", expected |-> expected]]
            ELSE IF SimilarityAtLeast(expected_clean, user_clean, 70)
            THEN [status |-> "similar", color |-> "orange",
                  message |-> [text |-> "minor error", expected |-> expected]]
            ELSE [status |-> "wrong", color |-> "red",
                  message |-> [text |-> "wrong", expected |-> expected]]
    IN  [expected |-> expected,
         user_said |-> user_said,
         expected_normalized |-> expected_clean,
         user_normalized |-> user_clean,
         similarity |-> Similarity100(expected_clean, user_clean),
         status |-> verdict.status,
         color |-> verdict.color,
         message |-> verdict.message]

----------------------------------------------------------------------------
(* The word store.  services/database.py, as main.py reads its rows: each   *)
(* word is a dict with the keys 'simple' and 'with_harakat' (main.py:64,    *)
(* 70-71, 92-93, 212-213).  database.py:48-62 as written returns the column *)
(* word_arabic as plain strings, which main.py could not index by key; the  *)
(* rows are modelled in the shape main.py consumes.                         *)

Word(simple, with_harakat) == [simple |-> simple, with_harakat |-> with_harakat]

Bism == Word(<<"beh", "seen", "meem">>,
             <<"beh", "kasra", "seen", "sukun", "meem", "kasra">>)
Allah == Word(<<"alef", "lam", "lam", "heh">>,
              <<"alef_wasla", "lam", "lam", "shadda", "fatha", "heh", "kasra">>)

\* the rows of the tables ayahs and words: (surah, ayah) -> words by position
ayah_words ==
    (<<1, 1>> :> <<Bism, Allah>>) @@ (<<1, 2>> :> <<Allah>>) @@ (<<1, 3>> :> <<>>)
        @@ (<<2, 1>> :> <<Bism, Allah, Allah, Bism>>)

\* the (surah, ayah) pairs a client names in init under Spec; <<1, 4>> is no
\* row of ayahs
InitKeys == {<<1, 1>>, <<1, 2>>, <<1, 3>>, <<1, 4>>}

\* QuranDatabase.get_ayah_words: raises ValueError when the ayah is not found
AyahFound(surah, ayah) == <<surah, ayah>> \in DOMAIN ayah_words
get_ayah_words(surah, ayah) == ayah_words[<<surah, ayah>>]

\* the texts the transcription service answers with
Transcripts == {Bism.simple, Allah.simple}

----------------------------------------------------------------------------
(* main.py: RecitationSession *)

Conns == {1, 2}

\* RecitationSession.__init__
NewSession(surah, ayah) ==
    [surah |-> surah, ayah |-> ayah, vad |-> NewVad, current_word_index |-> 0,
     expected_words |-> get_ayah_words(surah, ayah), results |-> <<>>]

\* mutant: the completion test is strict
is_completeStrict(s) == s.current_word_index > Len(s.expected_words)

\* RecitationSession.is_complete
is_complete(s) == s.current_word_index >= Len(s.expected_words)

\* mutant: only the first result enters the sum
SumSimilarityOfFirst(results) ==
    IF results = <<>> THEN 0 ELSE Head(results).similarity

\* sum(...) over the results, get_final_stats lines 163-164
RECURSIVE SumSimilarity(_)
SumSimilarity(results) ==
    IF results = <<>> THEN 0
    ELSE Head(results).similarity + SumSimilarity(Tail(results))
\* mutant: every result that is not wrong counts as correct
CountCorrectNotWrong(results) ==
    Cardinality({i \in 1..Len(results) : results[i].status # "wrong"})

\* sum(1 for r in self.results if r.get('status') == 'correct')
CountCorrect(results) ==
    Cardinality({i \in 1..Len(results) : results[i].status = "correct"})

\* RecitationSession.get_final_stats (similarities in hundredths); `above`:
\* whether round() takes the upper hundredth when the mean lies midway
get_final_stats(s, above) ==
    IF s.results = <<>>
    THEN [total_words |-> 0, correct_words |-> 0, overall_accuracy |-> 0]
    ELSE LET total == Len(s.results)
         IN  [total_words |-> total,
              correct_words |-> CountCorrect(s.results),
              overall_accuracy |->
                  RoundHundredths(SumSimilarity(s.results), total, above),
              results |-> s.results]

\* mutant: words are numbered from one
WordResultOneBased(s, expected_word_simple, expected_word_harakat, comparison) ==
    [type |-> "word_result",
     word_index |-> s.current_word_index + 1,
     expected |-> comparison.expected,
     expected_with_harakat |-> expected_word_harakat,
     user_said |-> comparison.user_said,
     expected_normalized |-> comparison.expected_normalized,
     user_normalized |-> comparison.user_normalized,
     similarity |-> comparison.similarity,
     status |-> comparison.status,
     color |-> comparison.color,
     message |-> comparison.message]

\* the dict built at lines 121-127
WordResult(s, expected_word_simple, expected_word_harakat, comparison) ==
    [type |-> "word_result",
     word_index |-> s.current_word_index,
     expected |-> comparison.expected,
     expected_with_harakat |-> expected_word_harakat,
     user_said |-> comparison.user_said,
     expected_normalized |-> comparison.expected_normalized,
     user_normalized |-> comparison.user_normalized,
     similarity |-> comparison.similarity,
     status |-> comparison.status,
     color |-> comparison.color,
     message |-> comparison.message]

\* mutant: the error reports the index of the word after the pending one
ErrorResultNextWord(s, message) ==
    [type |-> "error", message |-> message, word_index |-> s.current_word_index + 1]

\* the dict returned by the except branch, lines 143-147
ErrorResult(s, message) ==
    [type |-> "error", message |-> message, word_index |-> s.current_word_index]

\* mutant: the notice is reported as an error of the pending word
CompleteNoticeAsError ==
    [type |-> "error", message |-> "All words completed", word_index |-> 0]

\* line 89
CompleteNotice == [type |-> "complete", message |-> "All words completed"]

\* mutant: the vocalised list repeats the simple forms
SessionStartedSimpleTwice(s) ==
    [type |-> "session_started", surah |-> s.surah, ayah |-> s.ayah,
     expected_words |-> [i \in 1..Len(s.expected_words) |-> s.expected_words[i].simple],
     expected_words_with_harakat |->
         [i \in 1..Len(s.expected_words) |-> s.expected_words[i].simple],
     total_words |-> Len(s.expected_words)]

\* lines 208-215
SessionStarted(s) ==
    [type |-> "session_started", surah |-> s.surah, ayah |-> s.ayah,
     expected_words |-> [i \in 1..Len(s.expected_words) |-> s.expected_words[i].simple],
     expected_words_with_harakat |->
         [i \in 1..Len(s.expected_words) |-> s.expected_words[i].with_harakat],
     total_words |-> Len(s.expected_words)]

\* lines 235-238: the statistics are spread into the message
SessionComplete(s, above) ==
    [type |-> "session_complete"] @@ get_final_stats(s, above)

\* lines 255-258
HandlerError(message) == [type |-> "error", message |-> message]

----------------------------------------------------------------------------
(* main.py: websocket_endpoint, one coroutine per connection.              *)
(*   pc = "receive"     awaiting websocket.receive(), line 193             *)
(*   pc = "normalize"   in audio_processor.process_pcm_to_wav, line 104    *)
(*   pc = "transcribe"  in transcriber.transcribe, line 109                *)
(*   pc = "closed"      not accepted yet, or after the finally block       *)

NoJob == [segment |-> None, no |-> 0, expected_word_simple |-> <<>>,
          expected_word_harakat |-> <<>>]
NewTrace == [produced |-> 0, requested |-> <<>>, scored |-> <<>>,
             failed |-> 0, init_failed |-> 0,
             last_speech |-> FALSE, flips |-> 0, last |-> "none"]

\* observer: the classifier's latest verdict and how often it has changed since
\* the detector last started on a word (the dummy detector classifies nothing)
FlipsAfter(t, frame, is_speech, flushed) ==
    IF ~USE_REAL_VAD \/ Malformed(frame) THEN t
    ELSE IF flushed THEN [t EXCEPT !.last_speech = FALSE, !.flips = 0]
    ELSE [t EXCEPT !.last_speech = is_speech,
                   !.flips = IF is_speech = t.last_speech THEN @ ELSE @ + 1]

CountType(events, type) ==
    Cardinality({i \in 1..Len(events) : events[i].type = type})

\* process_audio_chunk does not await: while one handler is inside it the
\* event loop runs no other handler
InPipeline(c) == pc[c] \in {"normalize", "transcribe"}
EventLoopFree(c) == \A d \in Conns \ {c} : ~InPipeline(d)

\* mutant: messages are taken while a process_audio_chunk call is in progress
AtReceiveOrBusy(c) == pc[c] # "closed"

\* the handler is suspended in `await websocket.receive()`
AtReceive(c) == pc[c] = "receive"

\* `while True` ... `break` after session_complete, lines 232-244
AfterResult(c, s) == IF is_complete(s) THEN "closed" ELSE "receive"

\* mutant: a send to a client that has gone is taken as delivered
SendResultToGone(c, s, result) ==
    /\ \E above \in BOOLEAN :
          sent' = [sent EXCEPT ![c] =
                     IF is_complete(s)
                     THEN sent[c] \o <<result, SessionComplete(s, above)>>
                     ELSE Append(sent[c], result)]
    /\ pc' = [pc EXCEPT ![c] = AfterResult(c, s)]

\* mutant: the loop is left on completion without session_complete
SendResultWithoutStats(c, s, result) ==
    IF gone[c]
    THEN /\ sent' = sent
         /\ pc' = [pc EXCEPT ![c] = "closed"]
    ELSE /\ sent' = [sent EXCEPT ![c] = Append(sent[c], result)]
         /\ pc' = [pc EXCEPT ![c] = AfterResult(c, s)]

\* await websocket.send_json(result), then the completion check, lines 227-244.
\* A send to a client that has gone raises; the handler ends in its except
\* and finally blocks and nothing is delivered.
SendResult(c, s, result) ==
    IF gone[c]
    THEN /\ sent' = sent
         /\ pc' = [pc EXCEPT ![c] = "closed"]
    ELSE /\ \E above \in BOOLEAN :
              sent' = [sent EXCEPT ![c] =
                         IF is_complete(s)
                         THEN sent[c] \o <<result, SessionComplete(s, above)>>
                         ELSE Append(sent[c], result)]
         /\ pc' = [pc EXCEPT ![c] = AfterResult(c, s)]

\* await websocket.accept()
Accept(c) ==
    /\ pc[c] = "closed" /\ session[c] = <<>> /\ sent[c] = <<>> /\ ~gone[c]
    /\ trace[c] = NewTrace
    /\ pc' = [pc EXCEPT ![c] = "receive"]
    /\ trace' = [trace EXCEPT ![c].last = "accept"]
    /\ UNCHANGED <<USE_REAL_VAD, pipe, calc, vadVars, session, sent, gone, job, inflight>>

\* the client closes the connection: while the handler runs, or once the
\* session is complete and the handler has closed its side
ClientDisconnect(c) ==
    /\ ~gone[c]
    /\ \/ pc[c] # "closed"
       \/ session[c] # <<>> /\ is_complete(session[c][1])
    /\ gone' = [gone EXCEPT ![c] = TRUE]
    /\ UNCHANGED <<USE_REAL_VAD, pipe, calc, vadVars, pc, session, sent, job, inflight, trace>>

\* mutant: the disconnect is reported like any other exception, lines 249-258
RecvDisconnectAsError(c) ==
    /\ AtReceive(c) /\ EventLoopFree(c) /\ gone[c]
    /\ pc' = [pc EXCEPT ![c] = "closed"]
    /\ sent' = [sent EXCEPT ![c] = Append(@, HandlerError("disconnect"))]
    /\ trace' = [trace EXCEPT ![c].last = "disconnect"]
    /\ UNCHANGED <<USE_REAL_VAD, pipe, calc, vadVars, session, gone, job, inflight>>

\* receive() after the client has gone: WebSocketDisconnect leaves the loop,
\* lines 246-247, and the socket is closed in finally, lines 262-267; close()
\* on the connection the client has closed already raises, which is swallowed
RecvDisconnect(c) ==
    /\ AtReceive(c) /\ EventLoopFree(c) /\ gone[c]
    /\ pc' = [pc EXCEPT ![c] = "closed"]
    /\ trace' = [trace EXCEPT ![c].last = "disconnect"]
    /\ UNCHANGED <<USE_REAL_VAD, pipe, calc, vadVars, session, sent, gone, job, inflight>>

\* mutant: a later init keeps the detector of the session it replaces
RecvInitKeepsDetector(c, surah, ayah, cap) ==
    /\ AtReceive(c) /\ EventLoopFree(c) /\ ~gone[c]
    /\ IF AyahFound(surah, ayah)
       THEN /\ CountType(sent[c], "session_started") < cap
            /\ LET s == IF session[c] = <<>> THEN NewSession(surah, ayah)
                        ELSE [NewSession(surah, ayah) EXCEPT !.vad = session[c][1].vad]
               IN  /\ session' = [session EXCEPT ![c] = <<s>>]
                   /\ sent' = [sent EXCEPT ![c] = Append(sent[c], SessionStarted(s))]
            /\ trace' = [trace EXCEPT ![c].last_speech = FALSE, ![c].flips = 0,
                                   ![c].last = "init"]
            /\ pc' = pc
       ELSE \* ValueError leaves the loop: lines 249-267
            /\ session' = session
            /\ sent' = [sent EXCEPT ![c] = Append(sent[c], HandlerError("Ayah not found"))]
            /\ pc' = [pc EXCEPT ![c] = "closed"]
            /\ trace' = [trace EXCEPT ![c].init_failed = @ + 1, ![c].last = "init"]
    /\ UNCHANGED <<USE_REAL_VAD, pipe, calc, vadVars, gone, job, inflight>>

\* a text message {"type": "init", "surah": .., "ayah": ..}, lines 196-218;
\* cap bounds the inits of one run of the model, the code counts none
RecvInitUpTo(c, surah, ayah, cap) ==
    /\ AtReceive(c) /\ EventLoopFree(c) /\ ~gone[c]
    /\ IF AyahFound(surah, ayah)
       THEN /\ CountType(sent[c], "session_started") < cap
            /\ LET s == NewSession(surah, ayah)
               IN  /\ session' = [session EXCEPT ![c] = <<s>>]
                   /\ sent' = [sent EXCEPT ![c] = Append(sent[c], SessionStarted(s))]
            /\ trace' = [trace EXCEPT ![c].last_speech = FALSE, ![c].flips = 0,
                                   ![c].last = "init"]
            /\ pc' = pc
       ELSE \* ValueError leaves the loop: lines 249-267
            /\ session' = session
            /\ sent' = [sent EXCEPT ![c] = Append(sent[c], HandlerError("Ayah not found"))]
            /\ pc' = [pc EXCEPT ![c] = "closed"]
            /\ trace' = [trace EXCEPT ![c].init_failed = @ + 1, ![c].last = "init"]
    /\ UNCHANGED <<USE_REAL_VAD, pipe, calc, vadVars, gone, job, inflight>>

RecvInit(c, surah, ayah) == RecvInitUpTo(c, surah, ayah, MaxInits)

\* mutant: a call of the detector that returned nothing is taken for a segment
NoSegmentNever(audio_segment) == FALSE

\* `if not audio_segment`, line 84
NoSegment(audio_segment) == audio_segment = None

\* mutant: one detector object serves every session
FeedFrameSharedDetector(c, s, frame, is_speech) ==
    LET r == process_frame(USE_REAL_VAD, s.vad, frame, is_speech)
        s1 == [s EXCEPT !.vad = r.vad]
        t0 == FlipsAfter(trace[c], frame, is_speech, r.ret # None)
        t1 == [t0 EXCEPT !.last = "bytes",
                         !.produced = IF r.ret # None THEN @ + 1 ELSE @]
    IN  /\ Len(r.vad.voiced_frames) <= MaxSegFrames
        /\ t1.flips <= MaxFlips
        /\ session' = [d \in Conns |->
                         IF d = c THEN <<s1>>
                         ELSE IF session[d] = <<>> THEN <<>>
                         ELSE <<[session[d][1] EXCEPT !.vad = r.vad]>>]
        /\ trace' = [trace EXCEPT ![c] = t1]
        /\ IF NoSegment(r.ret)
           THEN UNCHANGED <<pc, sent, job>>
           ELSE IF s1.current_word_index >= Len(s1.expected_words)
                THEN /\ SendResult(c, s1, CompleteNotice)
                     /\ job' = job
                ELSE /\ pc' = [pc EXCEPT ![c] = "normalize"]
                     /\ sent' = sent
                     /\ job' = [job EXCEPT ![c] =
                          [segment |-> r.ret,
                           no |-> t1.produced,
                           expected_word_simple |->
                             s1.expected_words[s1.current_word_index + 1].simple,
                           expected_word_harakat |->
                             s1.expected_words[s1.current_word_index + 1].with_harakat]]

\* RecitationSession.process_audio_chunk up to the pipeline, lines 81-99
FeedFrame(c, s, frame, is_speech) ==
    LET r == process_frame(USE_REAL_VAD, s.vad, frame, is_speech)
        s1 == [s EXCEPT !.vad = r.vad]
        t0 == FlipsAfter(trace[c], frame, is_speech, r.ret # None)
        t1 == [t0 EXCEPT !.last = "bytes",
                         !.produced = IF r.ret # None THEN @ + 1 ELSE @]
    IN  /\ Len(r.vad.voiced_frames) <= MaxSegFrames
        /\ t1.flips <= MaxFlips
        /\ session' = [session EXCEPT ![c] = <<s1>>]
        /\ trace' = [trace EXCEPT ![c] = t1]
        /\ IF NoSegment(r.ret)
           THEN UNCHANGED <<pc, sent, job>>
           ELSE IF s1.current_word_index >= Len(s1.expected_words)
                THEN /\ SendResult(c, s1, CompleteNotice)
                     /\ job' = job
                ELSE /\ pc' = [pc EXCEPT ![c] = "normalize"]
                     /\ sent' = sent
                     /\ job' = [job EXCEPT ![c] =
                          [segment |-> r.ret,
                           no |-> t1.produced,
                           expected_word_simple |->
                             s1.expected_words[s1.current_word_index + 1].simple,
                           expected_word_harakat |->
                             s1.expected_words[s1.current_word_index + 1].with_harakat]]

\* a binary message, lines 221-244
RecvBytes(c, len, is_speech) ==
    /\ AtReceive(c) /\ EventLoopFree(c) /\ ~gone[c]
    /\ IF session[c] = <<>>
       THEN /\ trace' = [trace EXCEPT ![c].last = "bytes"]
            /\ UNCHANGED <<pc, session, sent, job>>
       ELSE FeedFrame(c, session[c][1],
                      Frame(CountType(sent[c], "session_started"), len), is_speech)
    /\ UNCHANGED <<USE_REAL_VAD, pipe, calc, vadVars, gone, inflight>>

\* audio_processor.process_pcm_to_wav returns the path of the WAV file
AudioProcessed(c) ==
    /\ pc[c] = "normalize"
    /\ pc' = [pc EXCEPT ![c] = "transcribe"]
    /\ inflight' = [inflight EXCEPT ![c] = Append(@, job[c].no)]
    /\ trace' = [trace EXCEPT ![c].requested = Append(@, job[c].no),
                              ![c].last = "audio"]
    /\ UNCHANGED <<USE_REAL_VAD, pipe, calc, vadVars, session, sent, gone, job>>

\* audio_processor.process_pcm_to_wav raises, process_audio_chunk lines 139-147
AudioFailed(c) ==
    /\ pc[c] = "normalize"
    /\ trace[c].failed < MaxErrors
    /\ SendResult(c, session[c][1], ErrorResult(session[c][1], "audio processing error"))
    /\ job' = [job EXCEPT ![c] = NoJob]
    /\ trace' = [trace EXCEPT ![c].failed = @ + 1, ![c].last = "audio_failed"]
    /\ UNCHANGED <<USE_REAL_VAD, pipe, calc, vadVars, session, gone, inflight>>

\* mutant: a failed word is given up and the session moves to the next one
TranscribeFailedSkipsWord(c, cap) ==
    /\ pc[c] = "transcribe"
    /\ trace[c].failed < cap
    /\ inflight' = [inflight EXCEPT ![c] = SelectSeq(@, LAMBDA n : n # job[c].no)]
    /\ LET s1 == [session[c][1] EXCEPT !.current_word_index = @ + 1]
       IN  /\ session' = [session EXCEPT ![c] = <<s1>>]
           /\ SendResult(c, s1, ErrorResult(session[c][1], "transcription error"))
    /\ job' = [job EXCEPT ![c] = NoJob]
    /\ trace' = [trace EXCEPT ![c].failed = @ + 1,
                              ![c].last = "transcribe_failed"]
    /\ UNCHANGED <<USE_REAL_VAD, pipe, calc, vadVars, gone>>

\* transcriber.transcribe raises (HTTP status, timeout, request exception);
\* the except block of process_audio_chunk, lines 139-147, returns the error
\* and leaves current_word_index and results alone.  cap bounds the failures
\* of one run of the model; the code counts none.
TranscribeFailedUpTo(c, cap) ==
    /\ pc[c] = "transcribe"
    /\ trace[c].failed < cap
    /\ inflight' = [inflight EXCEPT ![c] = SelectSeq(@, LAMBDA n : n # job[c].no)]
    /\ SendResult(c, session[c][1], ErrorResult(session[c][1], "transcription error"))
    /\ job' = [job EXCEPT ![c] = NoJob]
    /\ trace' = [trace EXCEPT ![c].failed = @ + 1,
                              ![c].last = "transcribe_failed"]
    /\ UNCHANGED <<USE_REAL_VAD, pipe, calc, vadVars, session, gone>>

TranscribeFailed(c) == TranscribeFailedUpTo(c, MaxErrors)

\* mutant: the word index is advanced before the result is built
ScoreWordIndexFirst(s, j, user_said) ==
    LET comparison == compare_words(j.expected_word_simple, user_said)
        s1 == [s EXCEPT !.current_word_index = @ + 1]
        result == WordResult(s1, j.expected_word_simple, j.expected_word_harakat,
                             comparison)
    IN  [session |-> [s1 EXCEPT !.results = Append(@, result)],
         result |-> result]

\* mutant: a scored word advances the index by two
ScoreWordSkips(s, j, user_said) ==
    LET comparison == compare_words(j.expected_word_simple, user_said)
        result == WordResult(s, j.expected_word_simple, j.expected_word_harakat,
                             comparison)
    IN  [session |-> [s EXCEPT !.results = Append(@, result),
                               !.current_word_index = @ + 2],
         result |-> result]

\* mutant: the result list holds the latest result only
ScoreWordKeepsLatest(s, j, user_said) ==
    LET comparison == compare_words(j.expected_word_simple, user_said)
        result == WordResult(s, j.expected_word_simple, j.expected_word_harakat,
                             comparison)
    IN  [session |-> [s EXCEPT !.results = <<result>>,
                               !.current_word_index = @ + 1],
         result |-> result]

\* mutant: the result is stored twice
ScoreWordStoresTwice(s, j, user_said) ==
    LET comparison == compare_words(j.expected_word_simple, user_said)
        result == WordResult(s, j.expected_word_simple, j.expected_word_harakat,
                             comparison)
    IN  [session |-> [s EXCEPT !.results = @ \o <<result, result>>,
                               !.current_word_index = @ + 1],
         result |-> result]

\* process_audio_chunk after a successful transcription, lines 110-137
ScoreWord(s, j, user_said) ==
    LET comparison == compare_words(j.expected_word_simple, user_said)
        result == WordResult(s, j.expected_word_simple, j.expected_word_harakat,
                             comparison)
    IN  [session |-> [s EXCEPT !.results = Append(@, result),
                               !.current_word_index = @ + 1],
         result |-> result]

\* transcriber.transcribe returns {'text': .., 'language': 'ar'}
Transcribed(c, user_said) ==
    /\ pc[c] = "transcribe"
    /\ inflight' = [inflight EXCEPT ![c] = SelectSeq(@, LAMBDA n : n # job[c].no)]
    /\ LET r == ScoreWord(session[c][1], job[c], user_said)
       IN  /\ session' = [session EXCEPT ![c] = <<r.session>>]
           /\ SendResult(c, r.session, r.result)
    /\ trace' = [trace EXCEPT ![c].scored = Append(@, job[c].no),
                              ![c].last = "transcribed"]
    /\ job' = [job EXCEPT ![c] = NoJob]
    /\ UNCHANGED <<USE_REAL_VAD, pipe, calc, vadVars, gone>>

Handler(c) ==
    \/ Accept(c)
    \/ ClientDisconnect(c)
    \/ RecvDisconnect(c)
    \/ \E k \in InitKeys : RecvInit(c, k[1], k[2])
    \/ \E len \in {bytes_per_frame, ShortLen}, is_speech \in BOOLEAN :
          RecvBytes(c, len, is_speech)
    \/ AudioProcessed(c)
    \/ AudioFailed(c)
    \/ TranscribeFailed(c)
    \/ \E user_said \in Transcripts : Transcribed(c, user_said)

----------------------------------------------------------------------------
(* SpecVad: one detector, fed frames one at a time and reset now and then.   *)
(* Valid frames carry as payload the number of resets so far and their      *)
(* arrival number since, so that every frame is distinct.                   *)

NewHist == [fed |-> <<>>, lead_speech |-> 0, flushes |-> <<>>, trig_at |-> 0,
            quiet |-> 0, segments |-> <<>>, resets |-> 0,
            reset_in_capture |-> FALSE,
            fresh |-> NewVad, fresh_ret |-> None]

\* observer: the valid frames fed since the detector was constructed or last
\* reset, how many of them from the first on were classified speech without a
\* break, the number of valid frames fed when each segment was returned, and
\* when the latest transition out of IDLE happened, how many frames classified
\* silence the detector has taken in a row while CAPTURING, the segments
\* returned; and a detector constructed
\* at the latest reset and fed the same frames with the same classifications,
\* with what its latest call returned
HistAfter(h, v, r, frame, is_speech) ==
    LET f == process_frame(USE_REAL_VAD, h.fresh, frame, is_speech)
    IN  IF Malformed(frame) THEN [h EXCEPT !.fresh = f.vad, !.fresh_ret = f.ret]
        ELSE LET fed == Append(h.fed, frame)
             IN  [h EXCEPT
                    !.fed = fed,
                    !.lead_speech = IF is_speech /\ h.lead_speech = Len(h.fed)
                                    THEN h.lead_speech + 1 ELSE h.lead_speech,
                    !.flushes = IF r.ret # None THEN Append(h.flushes, Len(fed))
                                ELSE h.flushes,
                    !.trig_at = IF ~v.triggered /\ r.vad.triggered THEN Len(fed)
                                ELSE h.trig_at,
                    !.quiet = IF v.triggered /\ ~is_speech THEN h.quiet + 1 ELSE 0,
                    !.segments = IF r.ret # None THEN Append(h.segments, r.ret)
                                 ELSE h.segments,
                    !.fresh = f.vad,
                    !.fresh_ret = f.ret]

\* vad.process_frame(frame) on the detector under test
Feed(frame, is_speech) ==
    LET r == process_frame(USE_REAL_VAD, vad, frame, is_speech)
    IN  /\ vad' = r.vad
        /\ call' = [op |-> "process_frame", frame |-> frame, is_speech |-> is_speech,
                    ret |-> r.ret, before |-> vad]
        /\ hist' = HistAfter(hist, vad, r, frame, is_speech)
        /\ UNCHANGED <<USE_REAL_VAD, pipe, calc, connVars>>

\* the payload of the next valid frame, and the number of resets that came
\* before a frame was fed
Payload(resets, n) == resets * (MaxFrames + frames_threshold + 1) + n
ResetsBefore(frame) == frame.data \div (MaxFrames + frames_threshold + 1)

\* frames fed before the first reset: the dummy detector, which has far fewer
\* states, is fed long enough to return a second segment
FramesBeforeReset ==
    IF USE_REAL_VAD THEN MaxFrames ELSE MaxFrames + frames_threshold

\* frames fed after a reset: as many as let either detector return a segment
FramesAfterReset == frames_threshold

FeedValid ==
    /\ Len(hist.fed) < (IF hist.resets = 0 THEN FramesBeforeReset
                        ELSE FramesAfterReset)
    /\ \E is_speech \in BOOLEAN :
         Feed(Frame(Payload(hist.resets, Len(hist.fed) + 1), bytes_per_frame),
              is_speech)

\* the classifier is not asked about a frame of the wrong length
FeedMalformed ==
    \E l \in {0, ShortLen, bytes_per_frame + 1} : Feed(Frame(0, l), FALSE)

\* SpecStream: the classifications of a stream long enough for several
\* segments.  The real detector is fed silence of any length, then speech
\* with at most one silence frame in the window until it captures, then
\* silence with at most one speech frame in the window until it releases; the
\* dummy detector never asks the classifier.
StreamAllows(is_speech) ==
    IF ~USE_REAL_VAD THEN is_speech
    ELSE IF ~vad.triggered
         THEN is_speech \/ NumVoiced(vad.ring_buffer) = 0
                        \/ NumUnvoiced(vad.ring_buffer) = 0
         ELSE ~is_speech \/ NumVoiced(vad.ring_buffer) = 0

FeedStream ==
    /\ Len(hist.fed) < MaxStream
    /\ \E is_speech \in BOOLEAN :
         /\ StreamAllows(is_speech)
         /\ Feed(Frame(Payload(0, Len(hist.fed) + 1), bytes_per_frame), is_speech)

\* a frame cut short by the client, between two valid ones
FeedShort ==
    /\ call.frame.len # ShortLen
    /\ Feed(Frame(0, ShortLen), FALSE)

\* vad.reset() on the detector under test
Reset ==
    /\ hist.resets < MaxResets
    /\ vad' = reset(vad)
    /\ call' = [op |-> "reset", frame |-> Frame(0, 0), is_speech |-> FALSE,
                ret |-> None, before |-> vad]
    /\ hist' = [NewHist EXCEPT
                   !.resets = hist.resets + 1,
                   !.reset_in_capture =
                       vad.triggered /\ vad.ring_buffer # <<>>]
    /\ UNCHANGED <<USE_REAL_VAD, pipe, calc, connVars>>

----------------------------------------------------------------------------
(* SpecText: the inputs are drawn in the initial state; each action applies *)
(* one operation of the program to them and records what it returned.       *)

\* one character of every class normalize tells apart, and plain letters
NormChars == {"fatha", "shadda", "tatweel", "alef_hamza_above", "alef_maksura",
              "teh_marbuta", " ", "beh", "alef"}
RECURSIVE TextsOfLen(_)
TextsOfLen(n) ==
    IF n = 0 THEN {<<>>}
    ELSE {Append(t, ch) : t \in TextsOfLen(n - 1), ch \in NormChars}
Texts == UNION {TextsOfLen(n) : n \in 0..MaxLen}

Rep(ch, n) == [i \in 1..n |-> ch]
\* pairs with k common letters and j differing ones on either side: the
\* ratio is k / (k + j), 0.85 for 17 and 3, 0.7 for 7 and 3
ThresholdPairs ==
    {<<Rep("lam", k) \o Rep("beh", j), Rep("lam", k) \o Rep("meem", j)>> :
        k \in 0..MaxRun, j \in 1..MaxTail}
\* a word of 439 distinct letters and the same followed by 155 others: the
\* ratio is 878 / 1033
LongPair ==
    <<[i \in 1..439 |-> ToString(i)], [i \in 1..594 |-> ToString(i)]>>
\* the texts spoken for a word: itself, a letter dropped, another word
Spoken(word) ==
    {word.simple, word.with_harakat, SubSeq(word.simple, 1, Len(word.simple) - 1),
     Bism.simple}
WordPairs == {<<w.simple, u>> : w \in {Bism, Allah}, u \in Spoken(Bism) \cup Spoken(Allah)}

TextPairs ==
    {<<t, t>> : t \in Texts} \cup {<<t, <<>>>> : t \in Texts}
        \cup ThresholdPairs \cup WordPairs \cup {LongPair}

\* the sessions after up to MaxResults scored words: each word is Allah,
\* spoken one of the ways of Spoken
RECURSIVE SessionsAfter(_)
SessionsAfter(n) ==
    IF n = 0
    THEN {[surah |-> 1, ayah |-> 2, vad |-> NewVad, current_word_index |-> 0,
           expected_words |-> <<Allah>>, results |-> <<>>]}
    ELSE {ScoreWord(s, [expected_word_simple |-> Allah.simple,
                        expected_word_harakat |-> Allah.with_harakat], u).session :
            s \in SessionsAfter(n - 1), u \in Spoken(Allah)}
NoSessionInput == [surah |-> 0, ayah |-> 0, vad |-> NewVad, current_word_index |-> 0,
                   expected_words |-> <<>>, results |-> <<>>]

NoCalc == [op |-> "none", expected |-> <<>>, user_said |-> <<>>,
           session |-> NoSessionInput, ret |-> <<>>]
CalcInputs ==
    {[op |-> "text", expected |-> p[1], user_said |-> p[2],
      session |-> NoSessionInput, ret |-> <<>>] : p \in TextPairs}
    \cup
    {[op |-> "session", expected |-> <<>>, user_said |-> <<>>,
      session |-> s, ret |-> <<>>] :
        s \in UNION {SessionsAfter(n) : n \in 0..MaxResults}}

\* text_matcher.normalize(expected)
CallNormalize ==
    /\ calc.op = "text"
    /\ calc' = [calc EXCEPT !.op = "normalize", !.ret = normalize(calc.expected)]
    /\ UNCHANGED <<USE_REAL_VAD, pipe, vadVars, connVars>>

\* text_matcher.compare_words(expected, user_said)
CallCompare ==
    /\ calc.op = "text"
    /\ calc' = [calc EXCEPT !.op = "compare_words",
                            !.ret = compare_words(calc.expected, calc.user_said)]
    /\ UNCHANGED <<USE_REAL_VAD, pipe, vadVars, connVars>>

\* session.get_final_stats()
CallStats ==
    /\ calc.op = "session"
    /\ \E above \in BOOLEAN :
          calc' = [calc EXCEPT !.op = "get_final_stats",
                               !.ret = get_final_stats(calc.session, above)]
    /\ UNCHANGED <<USE_REAL_VAD, pipe, vadVars, connVars>>

----------------------------------------------------------------------------
(* Specifications *)

----------------------------------------------------------------------------
(* SpecPass: the pipeline of process_audio_chunk, main.py:101-147, with the *)
(* temporary WAV file that audio_processor.process_pcm_to_wav creates and   *)
(* transcriber.transcribe reads and removes.  Paths are numbered in the     *)
(* order tempfile.NamedTemporaryFile hands them out.                        *)
(*   at = "feed"        no segment in the pipeline                          *)
(*   at = "transcribe"  process_pcm_to_wav has returned wav_path            *)
(*   at = "compare"     transcribe has returned the text                    *)
(* os.remove of a file that is still open succeeds on POSIX systems and     *)
(* raises on Windows; remove_open_fails tells which system runs the code.   *)

NoPath == 0

NewPipe(remove_open_fails) ==
    [files |-> {}, handles |-> {}, made |-> 0, wav_path |-> NoPath,
     at |-> "feed", op |-> "none", outcome |-> "none", returned |-> "none",
     remove_open_fails |-> remove_open_fails]

\* tempfile.NamedTemporaryFile(delete=False, suffix='.wav'), lines 60-65 of
\* audio_processor.py: the file exists from here on
NamedTemporaryFile(p) ==
    [p EXCEPT !.made = @ + 1, !.files = @ \cup {p.made + 1}]

\* AudioProcessor.process_pcm_to_wav.  outcome: "load_error" for an exception
\* of lines 29-56, before the file is created; "export_error" for one of
\* lines 67-79 (audio.export, os.path.getsize), after it; "ok"
process_pcm_to_wav(p, outcome) ==
    IF outcome = "load_error" THEN p
    ELSE IF outcome = "export_error" THEN NamedTemporaryFile(p)
    ELSE [NamedTemporaryFile(p) EXCEPT !.wav_path = p.made + 1]

\* transcriber.py:85-92: os.remove(audio_path) if the file exists; an exception
\* of os.remove is swallowed
RemoveIfExists(p, audio_path) ==
    IF audio_path \in p.handles /\ p.remove_open_fails THEN p
    ELSE [p EXCEPT !.files = @ \ {audio_path}]

\* WhisperTranscriber.transcribe(audio_path).  outcome: "text" for status 200,
\* "status" for another status (both after the handle of line 38 has been
\* closed at line 57), "exception" for an exception of requests.post
\* (connection error, timeout), which skips line 57
transcribe(p, audio_path, outcome) ==
    LET opened == [p EXCEPT !.handles = @ \cup {audio_path}]
        posted == IF outcome = "exception" THEN opened
                  ELSE [opened EXCEPT !.handles = @ \ {audio_path}]
    IN  RemoveIfExists(posted, audio_path)

\* the pass is over: process_audio_chunk returns
Returned(p, op, outcome, returned) ==
    [p EXCEPT !.at = "feed", !.wav_path = NoPath, !.op = op,
              !.outcome = outcome, !.returned = returned]

\* main.py:104, and the except branch 139-147 when it raises
Normalize(outcome) ==
    /\ pipe.at = "feed" /\ pipe.made < MaxPasses
    /\ LET p == process_pcm_to_wav(pipe, outcome)
       IN  pipe' = IF outcome = "ok"
                   THEN [p EXCEPT !.at = "transcribe", !.op = "process_pcm_to_wav",
                                  !.outcome = outcome, !.returned = "none"]
                   ELSE Returned(p, "process_pcm_to_wav", outcome, "error")
    /\ UNCHANGED <<USE_REAL_VAD, calc, vadVars, connVars>>

\* main.py:109-110, and the except branch when it raises
Transcribe(outcome) ==
    /\ pipe.at = "transcribe"
    /\ LET p == transcribe(pipe, pipe.wav_path, outcome)
       IN  pipe' = IF outcome = "text"
                   THEN [p EXCEPT !.at = "compare", !.op = "transcribe",
                                  !.outcome = outcome]
                   ELSE [Returned(p, "transcribe", outcome, "error")
                            EXCEPT !.wav_path = pipe.wav_path]
    /\ UNCHANGED <<USE_REAL_VAD, calc, vadVars, connVars>>

\* main.py:115-137, and the except branch should the comparison raise
Score(outcome) ==
    /\ pipe.at = "compare"
    /\ pipe' = [Returned(pipe, "compare_words", outcome,
                         IF outcome = "ok" THEN "word_result" ELSE "error")
                   EXCEPT !.wav_path = pipe.wav_path]
    /\ UNCHANGED <<USE_REAL_VAD, calc, vadVars, connVars>>

\* the state after import and construction: no connection accepted yet, a
\* freshly constructed detector
InitProgram ==
    /\ USE_REAL_VAD \in BOOLEAN
    /\ vad = NewVad
    /\ call = [op |-> "init", frame |-> Frame(0, 0), is_speech |-> FALSE,
               ret |-> None, before |-> NewVad]
    /\ hist = NewHist
    /\ pc = [c \in Conns |-> "closed"]
    /\ session = [c \in Conns |-> <<>>]
    /\ sent = [c \in Conns |-> <<>>]
    /\ gone = [c \in Conns |-> FALSE]
    /\ job = [c \in Conns |-> NoJob]
    /\ inflight = [c \in Conns |-> <<>>]
    /\ trace = [c \in Conns |-> NewTrace]

Init == InitProgram /\ calc = NoCalc /\ pipe = NewPipe(FALSE)

\* Spec: the handler of one connection
Next == Handler(1)

Spec == Init /\ [][Next]_vars

\* SpecVad: the detector alone
NextVad == FeedValid \/ FeedMalformed \/ Reset

SpecVad == Init /\ [][NextVad]_vars

\* SpecStream: the detector alone on a long stream, never reset
NextStream == FeedStream \/ FeedShort

SpecStream == Init /\ [][NextStream]_vars

\* SpecScenario: the handler of one connection whose client stays, names the
\* ayah of four words, and whose audio and transcription steps succeed
NextScenario ==
    \/ Accept(1)
    \/ RecvInit(1, 2, 1)
    \/ \E len \in {bytes_per_frame, ShortLen}, is_speech \in BOOLEAN :
          RecvBytes(1, len, is_speech)
    \/ AudioProcessed(1)
    \/ \E user_said \in Transcripts : Transcribed(1, user_said)

SpecScenario == Init /\ [][NextScenario]_vars

\* SpecTwo: the handlers of two connections in one event loop, one client
\* reciting the ayah of one word and the other the ayah of two words; each
\* word is spoken without a pause and followed by silence
SessionOf(c, surah, ayah) ==
    \/ Accept(c)
    \/ RecvInit(c, surah, ayah)
    \/ \E is_speech \in BOOLEAN :
          /\ session[c] # <<>> => is_speech = ~session[c][1].vad.triggered
          /\ RecvBytes(c, bytes_per_frame, is_speech)
    \/ AudioProcessed(c)
    \/ \E user_said \in Transcripts : Transcribed(c, user_said)

NextTwo == SessionOf(1, 1, 2) \/ SessionOf(2, 1, 1)

SpecTwo == Init /\ [][NextTwo]_vars

(* SpecRetry: one client recites the two-word ayah <<1, 1>> while the        *)
(* transcription service fails time after time.                              *)
NextRetry ==
    \/ Accept(1)
    \/ RecvInit(1, 1, 1)
    \/ \E is_speech \in BOOLEAN :
          /\ session[1] # <<>> => is_speech = ~session[1][1].vad.triggered
          /\ RecvBytes(1, bytes_per_frame, is_speech)
    \/ AudioProcessed(1)
    \/ TranscribeFailedUpTo(1, MaxRetries)
    \/ \E user_said \in Transcripts : Transcribed(1, user_said)

SpecRetry == Init /\ [][NextRetry]_vars

(* SpecLive: SpecRetry with a client that keeps sending the frames of its    *)
(* recital, an audio step that ends, and a transcription service that        *)
(* answers whenever it is asked again and again.  websocket.receive() returns *)
(* once a message has arrived, and the calls of the pipeline are synchronous. *)
(* The answer is strongly fair: asked infinitely often, the service answers  *)
(* infinitely often.  It can answer exactly when the handler is at the call, *)
(* and the condition is written so.                                         *)
ClientRecites(c) ==
    \E is_speech \in BOOLEAN :
        /\ session[c] # <<>> => is_speech = ~session[c][1].vad.triggered
        /\ RecvBytes(c, bytes_per_frame, is_speech)

TranscriptionAnswers(c) == \E user_said \in Transcripts : Transcribed(c, user_said)

SpecLive ==
    /\ Init /\ [][NextRetry]_vars
    /\ WF_vars(ClientRecites(1))
    /\ WF_vars(AudioProcessed(1))
    /\ []<>(pc[1] = "transcribe") => []<><<TranscriptionAnswers(1)>>_vars

(* SpecReinit: one client that names an ayah again while its session is     *)
(* under way.                                                                *)
ReinitKeys == {<<1, 1>>, <<1, 2>>}

NextReinit ==
    \/ Accept(1)
    \/ \E k \in ReinitKeys : RecvInitUpTo(1, k[1], k[2], MaxReinits)
    \/ \E is_speech \in BOOLEAN :
          /\ session[1] # <<>> => is_speech = ~session[1][1].vad.triggered
          /\ RecvBytes(1, bytes_per_frame, is_speech)
    \/ AudioProcessed(1)
    \/ \E user_said \in Transcripts : Transcribed(1, user_said)

SpecReinit == Init /\ [][NextReinit]_vars

\* SpecPass: the pipeline passes of one session, on either kind of system
InitPass ==
    /\ InitProgram /\ calc = NoCalc
    /\ \E remove_open_fails \in BOOLEAN : pipe = NewPipe(remove_open_fails)

NextPass ==
    \/ \E outcome \in {"load_error", "export_error", "ok"} : Normalize(outcome)
    \/ \E outcome \in {"text", "status", "exception"} : Transcribe(outcome)
    \/ \E outcome \in {"ok", "error"} : Score(outcome)

SpecPass == InitPass /\ [][NextPass]_vars

\* SpecText: the text matcher and the statistics on drawn inputs
InitText == InitProgram /\ calc \in CalcInputs /\ pipe = NewPipe(FALSE)

NextText == CallNormalize \/ CallCompare \/ CallStats

SpecText == InitText /\ [][NextText]_vars

----------------------------------------------------------------------------
(* Properties of the detector, checked under SpecVad.  `call` holds the     *)
(* latest call: its frame, the classifier's verdict, the detector before    *)
(* the call (call.before) and the value returned; `vad` is the detector     *)
(* after it.                                                                *)

ValidCall == call.op = "process_frame" /\ call.frame.len = bytes_per_frame
IdleCall == ValidCall /\ USE_REAL_VAD /\ ~call.before.triggered
CapturingCall == ValidCall /\ USE_REAL_VAD /\ call.before.triggered

\* the ring buffer of the latest call once the frame has been pushed: the
\* last ring_buffer_size entries
PushedRing ==
    LET all == Append(call.before.ring_buffer,
                      [frame |-> call.frame, speech |-> call.is_speech])
    IN  IF Len(all) > 10 THEN SubSeq(all, Len(all) - 9, Len(all)) ELSE all
SpeechIn(rb) == Cardinality({i \in 1..Len(rb) : rb[i].speech})
SilenceIn(rb) == Cardinality({i \in 1..Len(rb) : ~rb[i].speech})
FramesOf(rb) == [i \in 1..Len(rb) |-> rb[i].frame]

\* C4: a process_frame call with a frame whose length is not 960 bytes returns
\* None and leaves the detector (state, ring buffer, accumulator) as it was,
\* in IDLE and in CAPTURING, for the real and the dummy detector.
C4_MalformedFrameIgnored ==
    (call.op = "process_frame" /\ call.frame.len # 960)
        => (call.ret = <<>> /\ vad = call.before)

\* C4 witness: a malformed frame was fed to a real detector that was CAPTURING
\* with frames in its accumulator and its ring buffer
C4_Witness ==
    /\ call.op = "process_frame" /\ call.frame.len # 960
    /\ USE_REAL_VAD /\ call.before.triggered
    /\ Len(call.before.voiced_frames) > 6 /\ call.before.ring_buffer # <<>>

\* C5 as stated: in IDLE the detector goes to CAPTURING exactly when the
\* fraction of the frames in the ring buffer that are speech exceeds 0.5
C5_TriggerOnFractionOfBuffer ==
    IdleCall =>
        (vad.triggered <=> SpeechIn(PushedRing) * 10 > 5 * Len(PushedRing))

\* C5 amended: in IDLE the frame is pushed with its classification, and the
\* detector goes to CAPTURING exactly when the number of speech frames in
\* the ring buffer exceeds 0.5 times the window size 10, however many frames
\* the buffer holds; then the accumulator is the buffered frames in order and
\* the ring buffer is empty; otherwise it stays IDLE with the frame buffered.
\* The call returns None either way.
C5_TriggerOnFractionOfWindow ==
    IdleCall =>
        /\ call.ret = <<>>
        /\ IF SpeechIn(PushedRing) * 10 > 5 * 10
           THEN /\ vad.triggered
                /\ vad.voiced_frames = FramesOf(PushedRing)
                /\ vad.ring_buffer = <<>>
           ELSE /\ ~vad.triggered
                /\ vad.ring_buffer = PushedRing
                /\ vad.voiced_frames = <<>>

\* C5 witness: a transition to CAPTURING from a full ring buffer, whose oldest
\* entry was evicted by the push
C5_Witness ==
    /\ IdleCall /\ vad.triggered
    /\ Len(call.before.ring_buffer) = 10 /\ Len(vad.voiced_frames) = 10

\* C6: on a fresh real detector whose first valid frames are all speech, the
\* detector is IDLE after each of frames 1 to 5 and CAPTURING after frame 6.
C6_SixSpeechFramesTrigger ==
    (USE_REAL_VAD /\ Len(hist.fed) <= 6 /\ hist.lead_speech = Len(hist.fed))
        => (vad.triggered <=> Len(hist.fed) = 6)

\* C6 witness: six speech frames fed, the detector CAPTURING
C6_Witness ==
    /\ USE_REAL_VAD /\ Len(hist.fed) = 6 /\ hist.lead_speech = 6
    /\ vad.triggered /\ Len(vad.voiced_frames) = 6

\* C7 as stated: in CAPTURING a segment is returned exactly when the fraction
\* of the frames in the ring buffer that are silence exceeds 0.8
C7_ReleaseOnFractionOfBuffer ==
    CapturingCall =>
        (call.ret # <<>> <=> SilenceIn(PushedRing) * 10 > 8 * Len(PushedRing))

\* C7 amended: in CAPTURING the frame is appended to the accumulator and to
\* the ring buffer, and a segment is returned exactly when the number of
\* silence frames in the ring buffer exceeds 0.8 times the window size 10;
\* right after a segment is returned the detector is IDLE with an empty
\* accumulator and an empty ring buffer; otherwise it stays CAPTURING and
\* returns None.
C7_ReleaseOnFractionOfWindow ==
    CapturingCall =>
        IF SilenceIn(PushedRing) * 10 > 8 * 10
        THEN /\ call.ret # <<>>
             /\ ~vad.triggered /\ vad.voiced_frames = <<>> /\ vad.ring_buffer = <<>>
        ELSE /\ call.ret = <<>>
             /\ vad.triggered
             /\ vad.voiced_frames = Append(call.before.voiced_frames, call.frame)
             /\ vad.ring_buffer = PushedRing

\* C7 witness: a segment returned from a full ring buffer holding one speech
\* frame among nine silence frames
C7_Witness ==
    /\ CapturingCall /\ call.ret # <<>>
    /\ Len(call.before.ring_buffer) = 10 /\ SpeechIn(PushedRing) = 1

\* the valid frames from number `from` to the latest, in arrival order
FedSince(from) == SubSeq(hist.fed, from, Len(hist.fed))
\* the number of valid frames fed before the IDLE phase that led to the
\* latest capture
IdlePhaseStart ==
    IF Len(hist.flushes) <= 1 THEN 0 ELSE hist.flushes[Len(hist.flushes) - 1]
\* the oldest frame still in the ring buffer at the transition
FirstCaptured ==
    IF hist.trig_at - 10 >= IdlePhaseStart THEN hist.trig_at - 9
    ELSE IdlePhaseStart + 1

\* C8: a segment returned by the real detector is the concatenation, in
\* arrival order and without gap, duplicate or reordering, of the frames in
\* the ring buffer at the transition into CAPTURING followed by every valid
\* frame fed since, the releasing frame included.
C8_SegmentIsExactConcatenation ==
    (USE_REAL_VAD /\ call.op = "process_frame" /\ call.ret # <<>>)
        => /\ call.ret = FedSince(FirstCaptured)
           /\ \A i \in 1..Len(call.ret) : call.ret[i].len = 960
           /\ \A i \in 1..(Len(call.ret) - 1) :
                 call.ret[i + 1].data = call.ret[i].data + 1
           /\ call.ret[Len(call.ret)] = call.frame

\* C8 witness: a segment whose capture began after the ring buffer had
\* evicted frames, released by nine silence frames
C8_Witness ==
    /\ USE_REAL_VAD /\ call.op = "process_frame" /\ call.ret # <<>>
    /\ call.ret[1].data > 1
    /\ Len(call.ret) = 19

----------------------------------------------------------------------------
(* Properties of the connection handler and its session, checked under Spec *)

HasSession(c) == session[c] # <<>>
Sess(c) == session[c][1]
TotalWords(c) == Len(Sess(c).expected_words)
EventsAt(c, type) == {i \in 1..Len(sent[c]) : sent[c][i].type = type}
\* the events delivered by the step
NewEvents(c) == SubSeq(sent'[c], Len(sent[c]) + 1, Len(sent'[c]))
OnlyAppended(c) ==
    /\ Len(sent'[c]) >= Len(sent[c])
    /\ SubSeq(sent'[c], 1, Len(sent[c])) = sent[c]
\* an error event of process_audio_chunk (it carries the word index)
IsFeedError(e) == e.type = "error" /\ "word_index" \in DOMAIN e
\* the expected words announced by the latest session_started before event k
AnnouncedBefore(c, k) ==
    LET starts == {i \in 1..(k - 1) : sent[c][i].type = "session_started"}
        last == CHOOSE i \in starts : \A j \in starts : j <= i
    IN  sent[c][last].expected_words

C2_StepOfFailure ==
    \A c \in Conns :
        trace'[c].failed = trace[c].failed + 1
          => /\ session'[c] = session[c]
             /\ OnlyAppended(c)
             /\ IF gone[c] THEN sent'[c] = sent[c]
                ELSE /\ Len(NewEvents(c)) = 1
                     /\ IsFeedError(NewEvents(c)[1])
                     /\ NewEvents(c)[1].word_index = Sess(c).current_word_index
                     /\ pc'[c] = "receive"
C2_NextResultSameWord ==
    \A c \in Conns :
        \A k \in 1..Len(sent[c]), m \in 1..Len(sent[c]) :
            (/\ k < m
             /\ IsFeedError(sent[c][k])
             /\ sent[c][m].type = "word_result"
             /\ \A n \in (k + 1)..(m - 1) :
                   sent[c][n].type \notin {"word_result", "session_started"})
              => /\ sent[c][m].word_index = sent[c][k].word_index
                 /\ sent[c][m].expected =
                      AnnouncedBefore(c, k)[sent[c][k].word_index + 1]
C3_StepOfSuccess ==
    \A c \in Conns :
        Len(trace'[c].scored) > Len(trace[c].scored)
          => LET s == Sess(c)
                 s1 == session'[c][1]
                 i == s.current_word_index
                 r == s1.results[Len(s1.results)]
             IN  /\ i < Len(s.expected_words)
                 /\ s1.results = Append(s.results, r)
                 /\ s1.current_word_index = i + 1
                 /\ s1.expected_words = s.expected_words
                 /\ r.type = "word_result"
                 /\ r.word_index = i
                 /\ r.expected = s.expected_words[i + 1].simple
                 /\ r.expected_with_harakat = s.expected_words[i + 1].with_harakat
                 /\ OnlyAppended(c)
                 /\ IF gone[c] THEN sent'[c] = sent[c]
                    ELSE /\ NewEvents(c) # <<>>
                         /\ NewEvents(c)[1] = r
                         /\ Cardinality({n \in 1..Len(NewEvents(c)) :
                                NewEvents(c)[n].type = "word_result"}) = 1
StrictlyIncreasing(q) == \A i \in 1..(Len(q) - 1) : q[i] < q[i + 1]
Elements(q) == {q[i] : i \in 1..Len(q)}

C10_StepOfFailedInit ==
    \A c \in Conns :
        trace'[c].init_failed = trace[c].init_failed + 1
          => /\ EventsAt(c, "session_started")
                  = {i \in 1..Len(sent'[c]) : sent'[c][i].type = "session_started"}
             /\ session'[c] = session[c]
             /\ pc'[c] = "receive"
C10_FailedInitKeepsAwaiting == [][C10_StepOfFailedInit]_vars

\* the words the store holds for the key of the session, by form
StoreSimple(s) ==
    [i \in 1..Len(ayah_words[<<s.surah, s.ayah>>]) |->
        ayah_words[<<s.surah, s.ayah>>][i].simple]
StoreHarakat(s) ==
    [i \in 1..Len(ayah_words[<<s.surah, s.ayah>>]) |->
        ayah_words[<<s.surah, s.ayah>>][i].with_harakat]

\* C11: right after a successful init the session holds the word store's
\* ordered list for its key, word index 0 and no results, the handler goes on
\* receiving, and the step has delivered exactly one event: session_started
\* with total_words the length of that list and both lists of forms in the
\* store's length and order.
C11_StepOfInit ==
    \A c \in Conns :
        Cardinality({i \in 1..Len(sent'[c]) : sent'[c][i].type = "session_started"})
            > Cardinality(EventsAt(c, "session_started"))
          => /\ OnlyAppended(c)
             /\ Len(NewEvents(c)) = 1
             /\ trace'[c].last = "init"
             /\ trace'[c].init_failed = trace[c].init_failed
C11_AfterInit ==
    \A c \in Conns :
        (trace[c].last = "init" /\ trace[c].init_failed = 0)
          => /\ HasSession(c)
             /\ <<Sess(c).surah, Sess(c).ayah>> \in DOMAIN ayah_words
             /\ Sess(c).expected_words = ayah_words[<<Sess(c).surah, Sess(c).ayah>>]
             /\ Sess(c).current_word_index = 0
             /\ Sess(c).results = <<>>
             /\ pc[c] = "receive"
             /\ sent[c] # <<>>
             /\ LET e == sent[c][Len(sent[c])]
                IN  /\ e.type = "session_started"
                    /\ e.surah = Sess(c).surah /\ e.ayah = Sess(c).ayah
                    /\ e.total_words = Len(ayah_words[<<e.surah, e.ayah>>])
                    /\ e.expected_words = StoreSimple(Sess(c))
                    /\ e.expected_words_with_harakat = StoreHarakat(Sess(c))
                    /\ Len(e.expected_words) = e.total_words
                    /\ Len(e.expected_words_with_harakat) = e.total_words
IsFeedEvent(e) == e.type \in {"word_result", "complete"} \/ IsFeedError(e)

\* C12: a binary message for which the detector returned no segment, or which
\* arrived before any session was started, delivers no event, starts no
\* transcription request and leaves the session's word index and results (or
\* the absence of a session) as they were; and events of process_audio_chunk
\* are delivered only on a connection with a session, at most one per segment
\* the detector returned.
C12_StepWithoutSegment ==
    \A c \in Conns :
        (trace'[c].last = "bytes" /\ trace'[c].produced = trace[c].produced)
          => /\ sent'[c] = sent[c]
             /\ trace'[c].requested = trace[c].requested
             /\ inflight'[c] = inflight[c]
             /\ pc'[c] = pc[c]
             /\ IF HasSession(c)
                THEN /\ session'[c] # <<>>
                     /\ session'[c][1].current_word_index = Sess(c).current_word_index
                     /\ session'[c][1].results = Sess(c).results
                     /\ session'[c][1].expected_words = Sess(c).expected_words
                ELSE session'[c] = <<>>
C12_EventsNeedSegment ==
    \A c \in Conns :
        /\ Cardinality({i \in 1..Len(sent[c]) : IsFeedEvent(sent[c][i])})
              <= trace[c].produced
        /\ Len(trace[c].requested) <= trace[c].produced
        /\ trace[c].produced > 0 => HasSession(c)
        /\ ~HasSession(c) =>
              \A i \in 1..Len(sent[c]) : sent[c][i] = HandlerError("Ayah not found")
C12_NoSegmentNoEvent == [][C12_StepWithoutSegment]_vars /\ []C12_EventsNeedSegment

\* C12 witness: frames have been taken into the accumulator of a session's
\* detector and nothing but session_started has been delivered
C12_Witness ==
    \E c \in Conns :
        /\ HasSession(c) /\ trace[c].last = "bytes" /\ trace[c].produced = 0
        /\ Len(Sess(c).vad.voiced_frames) >= 7
        /\ Len(sent[c]) = 1 /\ trace[c].requested = <<>>

\* a binary message taken before any init: nothing delivered, no session
C12_WitnessBeforeInit ==
    \E c \in Conns :
        /\ ~HasSession(c) /\ trace[c].last = "bytes" /\ sent[c] = <<>>
        /\ pc[c] = "receive"

\* C13: when the detector returns a segment while the word index already
\* equals the number of expected words, the step delivers the complete notice
\* (to a client that is still there) and does nothing else with the segment:
\* no audio or transcription step is entered, no word_result and no error is
\* delivered, and the word index and the results stay as they were.
C13_StepAtFullIndex ==
    \A c \in Conns :
        (/\ trace'[c].produced = trace[c].produced + 1
         /\ Sess(c).current_word_index >= TotalWords(c))
          => /\ session'[c][1].current_word_index = Sess(c).current_word_index
             /\ session'[c][1].results = Sess(c).results
             /\ pc'[c] \notin {"normalize", "transcribe"}
             /\ trace'[c].requested = trace[c].requested
             /\ trace'[c].scored = trace[c].scored
             /\ inflight'[c] = inflight[c]
             /\ OnlyAppended(c)
             /\ IF gone[c] THEN sent'[c] = sent[c]
                ELSE /\ NewEvents(c) # <<>>
                     /\ NewEvents(c)[1] = [type |-> "complete",
                                           message |-> "All words completed"]
                     /\ \A n \in 1..Len(NewEvents(c)) :
                           NewEvents(c)[n].type \notin {"word_result", "error"}
C13_CompleteNoticeOnly == [][C13_StepAtFullIndex]_vars

\* C13 witness: the complete notice delivered in a session on the ayah
\* without words
C13_Witness ==
    \E c \in Conns :
        /\ HasSession(c) /\ TotalWords(c) = 0 /\ trace[c].produced = 1
        /\ \E n \in 1..Len(sent[c]) : sent[c][n].type = "complete"
        /\ Sess(c).results = <<>> /\ trace[c].requested = <<>>

\* C14: the word index of a session is always between 0 and the number of
\* expected words; a step that keeps the session leaves the index or raises
\* it by exactly one, it raises it exactly when a segment is scored, and a
\* failed step leaves it.
C14_IndexInRange ==
    \A c \in Conns :
        HasSession(c) =>
            /\ Sess(c).current_word_index \in 0..TotalWords(c)
            /\ Sess(c).current_word_index = Len(Sess(c).results)
C14_StepOfIndex ==
    \A c \in Conns :
        (/\ HasSession(c) /\ session'[c] # <<>>
         /\ Cardinality({i \in 1..Len(sent'[c]) : sent'[c][i].type = "session_started"})
               = Cardinality(EventsAt(c, "session_started")))
          => LET i == Sess(c).current_word_index
                 i1 == session'[c][1].current_word_index
             IN  /\ i1 \in {i, i + 1}
                 /\ i1 = i + 1 <=> Len(trace'[c].scored) = Len(trace[c].scored) + 1
                 /\ trace'[c].failed > trace[c].failed => i1 = i
                 /\ session'[c][1].expected_words = Sess(c).expected_words
----------------------------------------------------------------------------
(* Properties of the text matcher and of the statistics, checked under      *)
(* SpecText.  `calc` holds the call: its inputs and the value returned.     *)

CompareCall == calc.op = "compare_words"
FormsDiffer == calc.ret.expected_normalized # calc.ret.user_normalized
Verdict == <<calc.ret.status, calc.ret.color>>
\* matched characters and total length of the two normalized forms
MatchedOfCall == Matches(calc.ret.expected_normalized, calc.ret.user_normalized)
LengthOfCall == Len(calc.ret.expected_normalized) + Len(calc.ret.user_normalized)

RECURSIVE TotalSimilarity(_, _)
TotalSimilarity(rs, n) ==
    IF n = 0 THEN 0 ELSE rs[n].similarity + TotalSimilarity(rs, n - 1)

\* C15: the statistics are computed from the result list alone: total_words
\* is the number of results, correct_words the number of results with status
\* correct (between 0 and total_words), overall_accuracy the mean of the
\* similarities to the nearest hundredth; for no results all three are 0.
C15_StatsFromResults ==
    calc.op = "get_final_stats" =>
        LET rs == calc.session.results
            n == Len(rs)
            st == calc.ret
            off == st.overall_accuracy * n - TotalSimilarity(rs, n)
        IN  /\ st.total_words = n
            /\ st.correct_words =
                  Cardinality({i \in 1..n : rs[i].status = "correct"})
            /\ st.correct_words \in 0..st.total_words
            /\ n = 0 => st.overall_accuracy = 0
            /\ 2 * off <= n /\ -2 * off <= n
            /\ st.overall_accuracy \in 0..10000

\* C15 witness: statistics of two results, one correct and one similar,
\* whose mean 92.855 lies midway between two hundredths
C15_Witness ==
    /\ calc.op = "get_final_stats"
    /\ calc.ret.total_words = 2 /\ calc.ret.correct_words = 1
    /\ calc.ret.overall_accuracy = 9286

\* C17 as stated: the verdict follows from the reported two-decimal
\* similarity, both thresholds inclusive: when the normalized forms differ,
\* reported >= 85.00 gives similar/yellow, else >= 70.00 similar/orange,
\* else wrong/red.
C17_VerdictFromReported ==
    CompareCall =>
        Verdict = IF ~FormsDiffer THEN <<"correct", "green">>
                  ELSE IF calc.ret.similarity >= 8500 THEN <<"similar", "yellow">>
                  ELSE IF calc.ret.similarity >= 7000 THEN <<"similar", "orange">>
                  ELSE <<"wrong", "red">>

\* C17 amended: identical normalized forms give correct/green; otherwise the
\* thresholds are inclusive on the similarity before rounding: a reported
\* value above 85.00 gives similar/yellow, one between 70.00 and 85.00
\* similar/orange, one below 70.00 wrong/red, and a reported 85.00 (70.00)
\* gives the upper verdict exactly when the similarity before rounding is at
\* least 85 (70), the lower one when rounding has raised it to the threshold.
C17_VerdictFromUnrounded ==
    CompareCall =>
        LET reported == calc.ret.similarity
            reaches(pct) == 200 * MatchedOfCall >= pct * LengthOfCall
        IN  Verdict =
              IF ~FormsDiffer THEN <<"correct", "green">>
              ELSE IF reported > 8500 \/ (reported = 8500 /\ reaches(85))
              THEN <<"similar", "yellow">>
              ELSE IF reported > 7000 \/ (reported = 7000 /\ reaches(70))
              THEN <<"similar", "orange">>
              ELSE <<"wrong", "red">>

\* C17 witness: differing forms with a similarity of exactly 85.00 (17 of 20
\* letters on either side match), classified similar/yellow
C17_Witness ==
    /\ CompareCall /\ FormsDiffer
    /\ calc.ret.similarity = 8500 /\ 200 * MatchedOfCall = 85 * LengthOfCall
    /\ Verdict = <<"similar", "yellow">>

\* differing forms with a similarity of exactly 70.00, classified
\* similar/orange
C17_WitnessOrange ==
    /\ CompareCall /\ FormsDiffer
    /\ calc.ret.similarity = 7000 /\ Verdict = <<"similar", "orange">>

\* C18: normalize applied to its own result returns that result.
C18_NormalizeIdempotent ==
    calc.op = "normalize" => normalize(calc.ret) = calc.ret

\* C18 witness: a text of three characters, whitespace among them, of which
\* normalize kept the one letter alef
C18_Witness ==
    /\ calc.op = "normalize" /\ Len(calc.expected) = 3
    /\ calc.ret # calc.expected /\ calc.ret = <<"alef">>
    /\ \E i \in 1..3 : calc.expected[i] = " "

\* C19: comparing a text that normalize leaves unchanged with itself gives
\* similarity 100.00 and status correct, the empty text included.
C19_IdentityScoresFull ==
    (CompareCall /\ calc.expected = calc.user_said
                 /\ calc.ret.expected_normalized = calc.expected)
        => (calc.ret.similarity = 10000 /\ calc.ret.status = "correct")

\* C19 witness: the empty text compared with itself
C19_Witness ==
    /\ CompareCall /\ calc.expected = <<>> /\ calc.user_said = <<>>
    /\ calc.ret.similarity = 10000 /\ calc.ret.status = "correct"


----------------------------------------------------------------------------
(* C16 *)

\* the events delivered since the latest session_started
LastStart(events) ==
    CHOOSE i \in 1..Len(events) :
        /\ events[i].type = "session_started"
        /\ \A k \in (i + 1)..Len(events) : events[k].type # "session_started"
SinceStart(events) == SubSeq(events, LastStart(events) + 1, Len(events))

\* every one of the N expected words has been scored, each on a transcription
\* equal to its simple form
ExactRecital(c) ==
    /\ session[c] # <<>>
    /\ Len(Sess(c).expected_words) >= 1
    /\ Len(Sess(c).results) = Len(Sess(c).expected_words)
    /\ \A i \in 1..Len(Sess(c).results) :
          Sess(c).results[i].user_said = Sess(c).expected_words[i].simple

----------------------------------------------------------------------------
(* C20, checked under SpecVad *)

\* the valid frames the detector holds or has just returned
HeldFrames ==
    {vad.voiced_frames[i] : i \in 1..Len(vad.voiced_frames)}
        \cup {vad.ring_buffer[i].frame : i \in 1..Len(vad.ring_buffer)}
        \cup {call.ret[i] : i \in 1..Len(call.ret)}

\* C20: reset(), called on a detector that is IDLE or CAPTURING whatever its
\* ring buffer and accumulator hold, leaves it IDLE with an empty accumulator
\* and an empty ring buffer; from then on the detector is in the state of, and
\* returns what is returned by, a newly constructed detector fed the same
\* frames with the same classifications; and no frame fed before the reset is
\* held by the detector or part of a segment returned after it.
C20_ResetAsNew ==
    /\ call.op = "reset"
         => /\ ~vad.triggered
            /\ vad.voiced_frames = <<>>
            /\ vad.ring_buffer = <<>>
    /\ hist.resets > 0
         => /\ vad = hist.fresh
            /\ call.op = "process_frame" => call.ret = hist.fresh_ret
            /\ \A f \in HeldFrames : ResetsBefore(f) = hist.resets

\* C20 witness: a real detector was reset while CAPTURING with frames in its
\* ring buffer, and has returned a segment since
C20_Witness ==
    /\ USE_REAL_VAD /\ hist.resets > 0 /\ hist.reset_in_capture
    /\ call.op = "process_frame" /\ call.ret # <<>>

\* reset() has just been called on a real detector that was CAPTURING with
\* frames in its accumulator and its ring buffer
C20_WitnessCapturing ==
    /\ call.op = "reset" /\ USE_REAL_VAD
    /\ call.before.triggered
    /\ Len(call.before.voiced_frames) > 6 /\ call.before.ring_buffer # <<>>

\* reset() has just been called on an IDLE real detector with a full ring
\* buffer, and on a dummy detector with frames in its accumulator
C20_WitnessIdle ==
    /\ call.op = "reset" /\ USE_REAL_VAD
    /\ ~call.before.triggered /\ Len(call.before.ring_buffer) = 10
C20_WitnessDummy ==
    /\ ~USE_REAL_VAD /\ hist.resets > 0
    /\ call.op = "process_frame" /\ call.ret # <<>>

----------------------------------------------------------------------------
(* C21 *)

\* C21: once the client of a connection has gone, no step delivers an event on
\* that connection, also not the step that ends a process_audio_chunk call
\* that was in progress when the client went; a handler that then leaves the
\* pipeline or the receive loop ends closed, and the other connection's
\* handler is not affected.
C21_StepAfterTeardown ==
    \A c \in Conns :
        gone[c] =>
            /\ sent'[c] = sent[c]
            /\ gone'[c]
            /\ pc'[c] # pc[c] => pc'[c] \in {"transcribe", "closed"}
            /\ (pc[c] \in {"receive", "transcribe"} /\ pc'[c] # pc[c])
                    => pc'[c] = "closed"
            /\ \A d \in Conns \ {c} : pc'[d] = pc[d] /\ sent'[d] = sent[d]
----------------------------------------------------------------------------
(* C22.  The code has no teardown() method: a session is torn down when its *)
(* handler leaves the receive loop (lines 246-267), and the connection is   *)
(* closed from both sides, in either order.                                 *)

\* the handler of c has run and has ended
Ended(c) == pc[c] = "closed" /\ trace[c].last # "none"

\* C22: the handler can be torn down by a disconnect before any init, during a
\* session and after the session is complete; the teardown delivers nothing,
\* leaves the session as it was and ends the handler; and closing a
\* connection that is closed already changes nothing and reports nothing:
\* once the handler has ended, no step changes its session, its events or
\* its state.
C22_StepOfTeardown ==
    \A c \in Conns :
        /\ (trace'[c].last = "disconnect" /\ trace[c] # trace'[c])
              => /\ pc'[c] = "closed"
                 /\ session'[c] = session[c]
                 /\ sent'[c] = sent[c]
                 /\ job'[c] = job[c]
        /\ Ended(c)
              => /\ pc'[c] = "closed"
                 /\ session'[c] = session[c]
                 /\ sent'[c] = sent[c]
                 /\ trace'[c] = trace[c]
C22_TeardownIdempotent == [][C22_StepOfTeardown]_vars

\* C22 witness: the session was completed, the handler closed the connection
\* and the client then closed it as well
C22_Witness ==
    /\ Ended(1) /\ gone[1] /\ HasSession(1)
    /\ is_complete(Sess(1)) /\ TotalWords(1) = 2
    /\ sent[1][Len(sent[1])].type = "session_complete"

\* the client closed the connection before any init, and during a session;
\* the handler then closed it as well
C22_WitnessAwaitingInit ==
    Ended(1) /\ gone[1] /\ ~HasSession(1) /\ trace[1].last = "disconnect"
C22_WitnessActive ==
    /\ Ended(1) /\ gone[1] /\ HasSession(1) /\ trace[1].last = "disconnect"
    /\ Sess(1).current_word_index = 1 /\ TotalWords(1) = 2

----------------------------------------------------------------------------
(* C25 *)

IsPrefix(p, q) == Len(p) <= Len(q) /\ SubSeq(q, 1, Len(p)) = p

\* the step starts a session on connection c
StartsSession(c) ==
    CountType(sent'[c], "session_started") > CountType(sent[c], "session_started")

\* C25: while a session lasts its result list only grows at the end, by one
\* word_result per step at most: the list before a step is a prefix of the
\* list after it, so every result appended keeps all its fields; and a
\* word_result delivered to the client is the result appended.
C25_StepOfResults ==
    \A c \in Conns :
        (HasSession(c) /\ ~StartsSession(c))
            => /\ session'[c] # <<>>
               /\ IsPrefix(Sess(c).results, session'[c][1].results)
               /\ Len(session'[c][1].results) <= Len(Sess(c).results) + 1
               /\ \A i \in 1..Len(session'[c][1].results) :
                     session'[c][1].results[i].type = "word_result"
----------------------------------------------------------------------------
(* C27 *)

WordResultsOf(events) == SelectSeq(events, LAMBDA e : e.type = "word_result")

\* session_started comes first and the word_result events of the session carry
\* the indices 0, 1, 2, ... in that order, each once
StartedFirstWordsInOrder(c) ==
    HasSession(c) =>
        /\ sent[c] # <<>> => sent[c][1].type = "session_started"
        /\ LET words == WordResultsOf(SinceStart(sent[c]))
           IN  \A i \in 1..Len(words) : words[i].word_index = i - 1

C27_WitnessNoWords ==
    HasSession(1) /\ TotalWords(1) = 0 /\ EventsAt(1, "session_complete") # {}

----------------------------------------------------------------------------
(* C26, checked under SpecVad *)

\* C26: the dummy detector never leaves its one accumulating state; it returns
\* a segment on exactly every 17th valid frame fed since its construction or
\* reset, the segment is the concatenation in arrival order of the 17 valid
\* frames fed since the previous segment (or the construction or reset),
\* whatever their classification; every other call returns None, and frames
\* of a wrong length are not counted and not kept.
C26_DummyFlushesEvery17th ==
    (~USE_REAL_VAD /\ call.op = "process_frame")
        => LET n == Len(hist.fed)
           IN  /\ ~vad.triggered /\ vad.ring_buffer = <<>>
               /\ vad.voiced_frames = FedSince(n - (n % 17) + 1)
               /\ IF call.frame.len = 960 /\ n % 17 = 0
                  THEN /\ call.ret = SubSeq(hist.fed, n - 16, n)
                       /\ Len(call.ret) = 17
                       /\ call.ret[17] = call.frame
                       /\ \A i \in 1..17 : call.ret[i].len = 960
                       /\ \A i \in 1..16 : call.ret[i + 1].data = call.ret[i].data + 1
                  ELSE call.ret = <<>>
               /\ call.frame.len # 960 => vad = call.before

\* C26 witness: the dummy detector returns its second segment, on the 34th
\* valid frame
C26_Witness ==
    /\ ~USE_REAL_VAD /\ call.op = "process_frame" /\ call.ret # <<>>
    /\ Len(hist.fed) = 34 /\ hist.flushes = <<17, 34>>
    /\ call.ret[1].data = 18

----------------------------------------------------------------------------
(* C28, checked under SpecVad *)

\* the valid frames fed since the latest transition into CAPTURING
SinceTrigger == Len(hist.fed) - hist.trig_at

\* C28: a real detector that is CAPTURING returns a segment no later than the
\* 9th of 9 consecutive valid frames classified silence, so it never stays
\* CAPTURING over 9 of them; and it returns no segment during the first 8
\* valid frames after the transition into CAPTURING, so a run of at most 8
\* silence frames right after the transition returns none.
C28_PromptEndPausesAbsorbed ==
    USE_REAL_VAD =>
        /\ vad.triggered => hist.quiet <= 8
        /\ (CapturingCall /\ call.frame.len = 960 /\ hist.quiet >= 9)
              => call.ret # <<>>
        /\ (CapturingCall /\ call.frame.len = 960 /\ SinceTrigger <= 8)
              => (call.ret = <<>> /\ vad.triggered)

\* C28 witness: the 9 valid frames after the transition into CAPTURING were
\* all silence; the first 8 were absorbed and the 9th returned the segment
C28_Witness ==
    /\ USE_REAL_VAD /\ CapturingCall /\ call.ret # <<>>
    /\ hist.quiet = 9 /\ SinceTrigger = 9

\* a pause of 8 silence frames right after the transition, still CAPTURING
C28_WitnessPause ==
    /\ USE_REAL_VAD /\ vad.triggered /\ hist.quiet = 8 /\ SinceTrigger = 8
\* a segment returned by the 9th silence frame in a row, well into the word
C28_WitnessLate ==
    /\ USE_REAL_VAD /\ CapturingCall /\ call.ret # <<>>
    /\ hist.quiet = 9 /\ SinceTrigger > 9
\* a segment returned by fewer than 9 silence frames in a row
C28_WitnessEarly ==
    /\ USE_REAL_VAD /\ CapturingCall /\ call.ret # <<>> /\ hist.quiet < 9

----------------------------------------------------------------------------
(* C23 and C29, checked under SpecPass *)

\* C23: after transcribe has returned a text, and after it has failed (another
\* status than 200, an exception of the request, a timeout), the temporary
\* file it was handed no longer exists.
C23_TranscribeReleasesFile ==
    pipe.op = "transcribe" => pipe.wav_path \notin pipe.files

\* what the code keeps of C23: the file is gone unless the request raised and
\* the system refuses to remove a file that is open
C23_ReleasedUnlessStillOpen ==
    pipe.op = "transcribe"
        => (pipe.wav_path \in pipe.files
              <=> (pipe.outcome = "exception" /\ pipe.remove_open_fails))

\* C29: whenever a pass of the pipeline is over (word_result, or error from the
\* audio step, the transcription or the comparison), no temporary file
\* created by the audio step exists.
C29_NoFileSurvivesPass ==
    pipe.at = "feed" => pipe.files = {}

----------------------------------------------------------------------------
(* C24, checked under SpecTwo *)

\* what belongs to the session and the handler of connection c
Own(c) == <<pc[c], session[c], sent[c], job[c], inflight[c], gone[c]>>
OwnAfter(c) == <<pc'[c], session'[c], sent'[c], job'[c], inflight'[c], gone'[c]>>

\* the step is one the session of c takes on what it owns alone: its detector
\* goes where process_frame takes it on some frame, its results are those
\* ScoreWord gives for the segment in hand, and its events grow by what that
\* step delivers
OwnStep(c) ==
    LET s == session[c][1]
        t == session'[c][1]
    IN  /\ t.expected_words = s.expected_words
        /\ t.surah = s.surah /\ t.ayah = s.ayah
        /\ \/ t.vad = s.vad
           \/ \E is_speech \in BOOLEAN :
                 t.vad = process_frame(USE_REAL_VAD, s.vad,
                            Frame(CountType(sent[c], "session_started"),
                                  bytes_per_frame), is_speech).vad
        /\ \/ t.results = s.results /\ t.current_word_index = s.current_word_index
           \/ \E user_said \in Transcripts :
                 /\ t = ScoreWord(s, job[c], user_said).session
                 /\ sent'[c] # sent[c] => sent'[c][Len(sent[c]) + 1] = t.results[Len(t.results)]
        /\ OnlyAppended(c)

\* C24: with two sessions whose inits and frames interleave in any order, a
\* step changes what one connection owns at most, so an operation on one
\* session never changes the other session's word index, result list,
\* expected words or detector; and what it changes follows from that
\* session's own state and input alone.
C24_StepOfOneSession ==
    \A c \in Conns :
        OwnAfter(c) # Own(c)
            => /\ \A d \in Conns \ {c} : OwnAfter(d) = Own(d)
               /\ (HasSession(c) /\ ~StartsSession(c)) => OwnStep(c)
               /\ StartsSession(c)
                     => \E k \in DOMAIN ayah_words :
                          session'[c] = <<NewSession(k[1], k[2])>>
----------------------------------------------------------------------------
(* C30, checked under SpecRetry *)

\* the events of the session before its n-th
Before(events, n) == SubSeq(events, 1, n - 1)

\* the last k events are errors that carry word index i
EndsWithErrorsAt(events, k, i) ==
    /\ Len(events) >= k
    /\ \A n \in (Len(events) - k + 1)..Len(events) :
          events[n].type = "error" /\ events[n].word_index = i

C30_WitnessFirstWord ==
    /\ HasSession(1)
    /\ EndsWithErrorsAt(sent[1], MaxRetries, 0)
    /\ Sess(1).results = <<>>
    /\ pc[1] = "receive"

----------------------------------------------------------------------------
(* C31 *)

\* the k-th stored result (0-based) is the one of the k-th expected word
ResultOfWord(s, k) ==
    /\ s.results[k + 1].type = "word_result"
    /\ s.results[k + 1].word_index = k
    /\ s.results[k + 1].expected = s.expected_words[k + 1].simple
    /\ s.results[k + 1].expected_with_harakat = s.expected_words[k + 1].with_harakat

C31_WitnessPartial ==
    /\ HasSession(1)
    /\ Len(Sess(1).expected_words) = 2
    /\ Sess(1).current_word_index = 1
    /\ Len(Sess(1).results) = 1
    /\ pc[1] = "transcribe"

----------------------------------------------------------------------------
(* C32, checked under SpecReinit *)

\* the frames a detector holds, in its window and in its accumulator
FramesHeld(v) ==
    {v.voiced_frames[i] : i \in 1..Len(v.voiced_frames)}
        \cup {IF USE_REAL_VAD THEN v.ring_buffer[i].frame ELSE v.ring_buffer[i] :
                i \in 1..Len(v.ring_buffer)}

\* the frames of the segment in the pipeline
FramesOfJob(j) == {j.segment[i] : i \in 1..Len(j.segment)}

\* after the step, c's session starts over on the ayah of key k
StartsOverOn(c, k) ==
    LET t == session'[c][1]
    IN  /\ t.surah = k[1] /\ t.ayah = k[2]
        /\ t.current_word_index = 0
        /\ t.results = <<>>
        /\ t.expected_words = get_ayah_words(k[1], k[2])
        /\ ~t.vad.triggered
        /\ t.vad.ring_buffer = <<>>
        /\ t.vad.voiced_frames = <<>>
        /\ sent'[c][Len(sent'[c])] = SessionStarted(t)

\* after the step, every frame the session of c holds, in its detector or in
\* the segment being scored, arrived after the session's init
HoldsOwnAudioAfter(c) ==
    session'[c] # <<>>
        => \A f \in FramesHeld(session'[c][1].vad) \cup FramesOfJob(job'[c]) :
              f.data = CountType(sent'[c], "session_started")

\* C32: an init received while a session is under way starts over: after it
\* the word index is 0, the result list is empty, the expected words are
\* those of the new key and the detector is idle with empty buffers; and in
\* every state the frames in the detector and in the segment being scored
\* arrived after the latest init, so audio captured before a later init
\* reaches no segment and no word_result of the new session.
C32_StepOfReinit ==
    \A c \in Conns :
        /\ (HasSession(c) /\ StartsSession(c))
              => \E k \in DOMAIN ayah_words : StartsOverOn(c, k)
        /\ HoldsOwnAudioAfter(c)
C32_WitnessCapturing ==
    /\ HasSession(1)
    /\ CountType(sent[1], "session_started") = 2
    /\ Sess(1).results = <<>>
    /\ Sess(1).vad.voiced_frames # <<>>

----------------------------------------------------------------------------
(* C33, checked under SpecVad *)

\* len(b''.join(frames))
RECURSIVE ByteLength(_)
ByteLength(frames) ==
    IF frames = <<>> THEN 0 ELSE Head(frames).len + ByteLength(Tail(frames))

\* of the frames of the segment just returned, those appended while CAPTURING
\* and those moved from the window at the transition
AppendedWhileCapturing == Len(hist.fed) - hist.trig_at
MovedAtTrigger == Len(call.ret) - AppendedWhileCapturing

\* C33: a segment returned by the real detector holds at least 15 frames, at
\* least 6 moved from the ring buffer at the transition into CAPTURING and at
\* least 9 appended while CAPTURING, and its length in bytes is a multiple of
\* the frame size; whenever the real detector is IDLE its accumulator is
\* empty.
C33_SegmentAtLeastFifteenFrames ==
    USE_REAL_VAD =>
        /\ (call.op = "process_frame" /\ call.ret # None)
              => /\ Len(call.ret) >= 15
                 /\ MovedAtTrigger >= 6
                 /\ AppendedWhileCapturing >= 9
                 /\ ByteLength(call.ret) % bytes_per_frame = 0
                 /\ ByteLength(call.ret) >= 15 * bytes_per_frame
        /\ ~vad.triggered => vad.voiced_frames = <<>>

\* C33 witness: the shortest segment, 6 frames from the window and 9 after
C33_Witness ==
    /\ USE_REAL_VAD /\ call.op = "process_frame" /\ call.ret # None
    /\ Len(call.ret) = 15
    /\ MovedAtTrigger = 6
    /\ ~vad.triggered /\ vad.voiced_frames = <<>>

\* C33 witness: a segment after a reset, and an idle detector whose window
\* holds frames while its accumulator is empty
C33_WitnessAfterReset ==
    /\ USE_REAL_VAD /\ call.op = "process_frame" /\ call.ret # None
    /\ hist.resets = 1
C33_WitnessIdleWindow ==
    /\ USE_REAL_VAD /\ ~vad.triggered
    /\ Len(vad.ring_buffer) = 10 /\ vad.voiced_frames = <<>>

----------------------------------------------------------------------------
(* C34, checked under SpecStream *)

\* the frames of the returned segments, in the order of their return
RECURSIVE Flat(_)
Flat(segments) ==
    IF segments = <<>> THEN <<>> ELSE Head(segments) \o Flat(Tail(segments))

\* the arrival number of a valid frame of the stream
Arrival(frame) == frame.data

\* C34: the segments returned over a sequence of process_frame calls are
\* disjoint, ordered pieces of the stream of valid frames: laid end to end in
\* the order of their return, their frames are frames of the stream in
\* strictly increasing order of arrival, so that no frame is in two segments
\* or twice in one and every frame of a later segment arrived after every
\* frame of an earlier one; and a segment returned by the real detector holds
\* every valid frame fed since the transition into CAPTURING.
C34_SegmentsDisjointOrdered ==
    LET all == Flat(hist.segments)
    IN  /\ \A i \in 1..Len(all) :
              /\ Arrival(all[i]) \in 1..Len(hist.fed)
              /\ hist.fed[Arrival(all[i])] = all[i]
        /\ \A i \in 1..(Len(all) - 1) : Arrival(all[i]) < Arrival(all[i + 1])
        /\ (call.op = "process_frame" /\ call.ret # None)
              => /\ hist.segments # <<>>
                 /\ hist.segments[Len(hist.segments)] = call.ret
                 /\ USE_REAL_VAD
                       => \A n \in (hist.trig_at + 1)..Len(hist.fed) :
                             \E i \in 1..Len(call.ret) : call.ret[i] = hist.fed[n]
        /\ (USE_REAL_VAD /\ vad.triggered)
              => \A n \in (hist.trig_at + 1)..Len(hist.fed) :
                    \E i \in 1..Len(vad.voiced_frames) :
                       vad.voiced_frames[i] = hist.fed[n]

\* C34 witness: the real detector has returned a second segment; frames of
\* the stream lie before the first and between the two
C34_Witness ==
    /\ USE_REAL_VAD /\ call.op = "process_frame" /\ call.ret # None
    /\ Len(hist.segments) = 2
    /\ Arrival(hist.segments[1][1]) > 1
    /\ Arrival(hist.segments[2][1])
          > Arrival(hist.segments[1][Len(hist.segments[1])]) + 1

\* C34 witness: the dummy detector has returned a second segment
C34_WitnessDummy ==
    /\ ~USE_REAL_VAD /\ Len(hist.segments) = 2

----------------------------------------------------------------------------
(* C35, checked under SpecLive *)

\* session_complete has been sent and the handler has left its loop
Completed(c) ==
    /\ CountType(sent[c], "session_complete") = 1
    /\ sent[c][Len(sent[c])].type = "session_complete"
    /\ pc[c] = "closed"

=============================================================================
